---------------------------- MODULE Spec2Model ----------------------------
(***************************************************************************)
(* A model of the Ollama web processor: the three server variants of the   *)
(* repository (src/server.js lines 1-205, src/unnamed/part_000 and          *)
(* src/server.js lines 207-618), their inference client callOllama, the    *)
(* request handlers and the spreadsheet pipeline processExcel.              *)
(*                                                                         *)
(* Texts are TLA+ strings; a character is a string of length one.  JSON    *)
(* values are tagged records.  The modelled JSON subset: objects, arrays,  *)
(* strings with the escapes \" \\ \/ \n \t \r, integers, true, false and   *)
(* null; texts with fractions, exponents or \u escapes are not among the   *)
(* inputs.  Object keys that are canonical array indices (which JavaScript *)
(* orders first) are not among the inputs either.                          *)
(***************************************************************************)
EXTENDS Integers, Sequences, FiniteSets, TLC

\* ------------------------------------------------------------------------
\* JavaScript string primitives
\* ------------------------------------------------------------------------

\* String.prototype.charAt: the character at 1-based position i, "" outside.
Ch(s, i) == IF i >= 1 /\ i <= Len(s) THEN SubSeq(s, i, i) ELSE ""

\* The white space of String.prototype.trim and of JSON, within the alphabet.
IsWs(c) == c \in {" ", "\t", "\n", "\r"}

RECURSIVE TrimStart(_)
TrimStart(s) == IF Len(s) > 0 /\ IsWs(Ch(s, 1)) THEN TrimStart(Tail(s)) ELSE s

RECURSIVE TrimEnd(_)
TrimEnd(s) ==
    IF Len(s) > 0 /\ IsWs(Ch(s, Len(s)))
    THEN TrimEnd(SubSeq(s, 1, Len(s) - 1))
    ELSE s

\* String.prototype.trim
Trim(s) == TrimEnd(TrimStart(s))

\* The first 1-based position in lo..hi of s that holds a character of the
\* set cs, 0 if there is none.  The range is halved at each step, which keeps
\* the depth of the evaluation logarithmic in its length.
RECURSIVE FirstIn(_, _, _, _)
FirstOr(left, s, cs, lo, hi) == IF left # 0 THEN left ELSE FirstIn(s, cs, lo, hi)
FirstIn(s, cs, lo, hi) ==
    IF lo > hi THEN 0
    ELSE IF lo = hi THEN (IF Ch(s, lo) \in cs THEN lo ELSE 0)
    ELSE FirstOr(FirstIn(s, cs, lo, (lo + hi) \div 2), s, cs,
                 (lo + hi) \div 2 + 1, hi)

\* The last such position, 0 if there is none.
RECURSIVE LastIn(_, _, _, _)
LastOr(right, s, cs, lo, hi) == IF right # 0 THEN right ELSE LastIn(s, cs, lo, hi)
LastIn(s, cs, lo, hi) ==
    IF lo > hi THEN 0
    ELSE IF lo = hi THEN (IF Ch(s, lo) \in cs THEN lo ELSE 0)
    ELSE LastOr(LastIn(s, cs, (lo + hi) \div 2 + 1, hi), s, cs,
                lo, (lo + hi) \div 2)

\* String.prototype.indexOf for a one-character needle: 0-based, -1 if absent.
IndexOf(s, c) == FirstIn(s, {c}, 1, Len(s)) - 1

\* String.prototype.lastIndexOf for a one-character needle.
LastIndexOf(s, c) == LastIn(s, {c}, 1, Len(s)) - 1

\* String.prototype.substring(a, b) for 0 <= a <= b <= length.
Substring(s, a, b) == SubSeq(s, a + 1, b)

\* ------------------------------------------------------------------------
\* JSON values and JavaScript objects
\* ------------------------------------------------------------------------

Undefined == [t |-> "undefined"]
JNull == [t |-> "null"]
JBool(b) == [t |-> "bool", b |-> b]
JNum(n) == [t |-> "num", n |-> n]
JStr(s) == [t |-> "str", s |-> s]
JArr(xs) == [t |-> "arr", a |-> xs]
\* An object is the sequence of its own properties in insertion order.
JObj(ps) == [t |-> "obj", o |-> ps]
Prop(k, v) == [k |-> k, v |-> v]

HasKey(ps, k) == \E j \in 1..Len(ps) : ps[j].k = k

\* obj[k] = v on a property list: an existing key keeps its place.
PropSet(ps, k, v) ==
    IF HasKey(ps, k)
    THEN [j \in 1..Len(ps) |-> IF ps[j].k = k THEN Prop(k, v) ELSE ps[j]]
    ELSE Append(ps, Prop(k, v))

\* x[k] for a JSON value x that is neither null nor undefined: own properties
\* of objects; the keys used by the program are no members of the prototypes
\* of strings, numbers, booleans or arrays.
GetProp(x, k) ==
    IF x.t = "obj" /\ HasKey(x.o, k)
    THEN x.o[CHOOSE j \in 1..Len(x.o) : x.o[j].k = k].v
    ELSE Undefined

\* ToBoolean
Truthy(x) ==
    CASE x.t = "undefined" -> FALSE
      [] x.t = "null" -> FALSE
      [] x.t = "bool" -> x.b
      [] x.t = "num" -> x.n # 0
      [] x.t = "str" -> x.s # ""
      [] OTHER -> TRUE

\* a || b
Or(a, b) == IF Truthy(a) THEN a ELSE b

\* a ?? b
Nullish(a, b) == IF a.t \in {"undefined", "null"} THEN b ELSE a

\* ------------------------------------------------------------------------
\* JSON.parse
\* ------------------------------------------------------------------------

Fail == [ok |-> FALSE]
Ok(v, i) == [ok |-> TRUE, v |-> v, i |-> i]

RECURSIVE SkipWs(_, _)
SkipWs(s, i) == IF i <= Len(s) /\ IsWs(Ch(s, i)) THEN SkipWs(s, i + 1) ELSE i

\* The character an escape sequence \e stands for, "" if e starts none.
Unescape(e) ==
    CASE e = "\"" -> "\""
      [] e = "\\" -> "\\"
      [] e = "/" -> "/"
      [] e = "n" -> "\n"
      [] e = "t" -> "\t"
      [] e = "r" -> "\r"
      [] OTHER -> ""

\* The characters that end a run of plain characters in a string literal:
\* the closing quote, the backslash and the control characters.
StringStops == {"\"", "\\", "\n", "\t", "\r"}

RECURSIVE ScanString(_, _, _)

\* A string literal read up to position j, the first stop at or after i.
ScanStop(s, i, j, acc) ==
    IF j = 0 THEN Fail
    ELSE IF Ch(s, j) = "\"" THEN Ok(acc \o SubSeq(s, i, j - 1), j + 1)
    ELSE IF Ch(s, j) = "\\" /\ Unescape(Ch(s, j + 1)) # ""
         THEN ScanString(s, j + 2,
                         acc \o SubSeq(s, i, j - 1) \o Unescape(Ch(s, j + 1)))
    ELSE Fail

\* The rest of a string literal whose opening quote precedes position i:
\* plain runs are taken whole, escapes one by one.
ScanString(s, i, acc) == ScanStop(s, i, FirstIn(s, StringStops, i, Len(s)), acc)

Digits == <<"0", "1", "2", "3", "4", "5", "6", "7", "8", "9">>
IsDigit(c) == \E d \in 1..10 : Digits[d] = c
DigitVal(c) == (CHOOSE d \in 1..10 : Digits[d] = c) - 1

RECURSIVE ScanDigits(_, _, _)
ScanDigits(s, i, acc) ==
    IF IsDigit(Ch(s, i)) THEN ScanDigits(s, i + 1, acc * 10 + DigitVal(Ch(s, i)))
    ELSE Ok(acc, i)

Signed(r, neg) == Ok(JNum(IF neg THEN 0 - r.v ELSE r.v), r.i)

\* The digits of an integer literal from position j on: 0 | [1-9][0-9]*.
ScanInteger(s, j, neg) ==
    IF ~IsDigit(Ch(s, j)) THEN Fail
    ELSE IF Ch(s, j) = "0"
         THEN (IF IsDigit(Ch(s, j + 1)) THEN Fail ELSE Ok(JNum(0), j + 1))
    ELSE Signed(ScanDigits(s, j, 0), neg)

\* An integer literal at position i, with its optional sign.
ScanNumber(s, i) ==
    IF Ch(s, i) = "-" THEN ScanInteger(s, i + 1, TRUE)
    ELSE ScanInteger(s, i, FALSE)

StartsAt(s, i, w) == i + Len(w) - 1 <= Len(s) /\ SubSeq(s, i, i + Len(w) - 1) = w

StringValue(r) == IF r.ok THEN Ok(JStr(r.v), r.i) ELSE Fail

RECURSIVE ParseValue(_, _)
RECURSIVE ParseAt(_, _)
RECURSIVE ParseElements(_, _, _)
RECURSIVE ParseMembers(_, _, _)

\* After an element that ended before position j: a comma and the next
\* element, or the closing bracket.
ElementSep(s, j, acc) ==
    IF Ch(s, j) = "," THEN ParseElements(s, j + 1, acc)
    ELSE IF Ch(s, j) = "]" THEN Ok(JArr(acc), j + 1)
    ELSE Fail

AfterElement(s, e, acc) ==
    IF ~e.ok THEN Fail ELSE ElementSep(s, SkipWs(s, e.i), Append(acc, e.v))

\* The elements of an array after its "[", the next of them at position i.
ParseElements(s, i, acc) == AfterElement(s, ParseValue(s, i), acc)

\* After a member that ended before position j.
MemberSep(s, j, ps) ==
    IF Ch(s, j) = "," THEN ParseMembers(s, j + 1, ps)
    ELSE IF Ch(s, j) = "}" THEN Ok(JObj(ps), j + 1)
    ELSE Fail

\* A duplicate key keeps its first place and takes the last value.
AfterMemberValue(s, key, e, acc) ==
    IF ~e.ok THEN Fail
    ELSE MemberSep(s, SkipWs(s, e.i), PropSet(acc, key, e.v))

MemberColon(s, key, c, acc) ==
    IF Ch(s, c) # ":" THEN Fail
    ELSE AfterMemberValue(s, key, ParseValue(s, c + 1), acc)

AfterMemberKey(s, k, acc) ==
    IF ~k.ok THEN Fail ELSE MemberColon(s, k.v, SkipWs(s, k.i), acc)

MemberKey(s, k0, acc) ==
    IF Ch(s, k0) # "\"" THEN Fail
    ELSE AfterMemberKey(s, ScanString(s, k0 + 1, ""), acc)

\* The members of an object after its "{", the next key at or after i.
ParseMembers(s, i, acc) == MemberKey(s, SkipWs(s, i), acc)

\* An array whose "[" precedes position k, white space skipped.
ArrayBody(s, k) ==
    IF Ch(s, k) = "]" THEN Ok(JArr(<<>>), k + 1) ELSE ParseElements(s, k, <<>>)

\* An object whose "{" precedes position k, white space skipped.
ObjectBody(s, k) ==
    IF Ch(s, k) = "}" THEN Ok(JObj(<<>>), k + 1) ELSE ParseMembers(s, k, <<>>)

\* The JSON value that starts at position j.
ParseAt(s, j) ==
    IF Ch(s, j) = "[" THEN ArrayBody(s, SkipWs(s, j + 1))
    ELSE IF Ch(s, j) = "{" THEN ObjectBody(s, SkipWs(s, j + 1))
    ELSE IF Ch(s, j) = "\"" THEN StringValue(ScanString(s, j + 1, ""))
    ELSE IF Ch(s, j) = "-" \/ IsDigit(Ch(s, j)) THEN ScanNumber(s, j)
    ELSE IF StartsAt(s, j, "true") THEN Ok(JBool(TRUE), j + 4)
    ELSE IF StartsAt(s, j, "false") THEN Ok(JBool(FALSE), j + 5)
    ELSE IF StartsAt(s, j, "null") THEN Ok(JNull, j + 4)
    ELSE Fail

\* One JSON value, after optional white space, at or after position i.
ParseValue(s, i) == ParseAt(s, SkipWs(s, i))

\* The whole text must be one value and white space.
ParseEnd(s, r) ==
    IF r.ok /\ SkipWs(s, r.i) = Len(s) + 1
    THEN [ok |-> TRUE, v |-> r.v]
    ELSE [ok |-> FALSE]

\* JSON.parse(s): [ok |-> TRUE, v |-> value], or [ok |-> FALSE] where
\* JSON.parse throws a SyntaxError.
JSONParse(s) == ParseEnd(s, ParseValue(s, 1))

\* ------------------------------------------------------------------------
\* processExcel: extraction of the JSON array from the model's reply
\* ------------------------------------------------------------------------

EmptyReplyMessage == "AI model returned empty response"
NoJsonArrayMessage == "AI response does not contain a valid JSON array"
\* 'AI response is not valid JSON: ' + parseError.message; the text of the
\* engine's SyntaxError is left as the word SyntaxError.
InvalidJsonMessage == "AI response is not valid JSON: SyntaxError"
\* modelResult.trim() on a reply that is no string.
TrimTypeErrorMessage == "modelResult.trim is not a function"

Threw(msg, ops) == [ok |-> FALSE, error |-> msg, ops |-> ops]

\* The slice of the trimmed reply from its first '[' to its last ']', or the
\* NoJsonArrayFound error.
\* The slice without the comparison of the two positions.
SliceBetweenUnordered(modelText, firstBracket, lastBracket) ==
    IF firstBracket # -1 /\ lastBracket # -1
    THEN [ok |-> TRUE, text |-> Substring(modelText, firstBracket, lastBracket + 1)]
    ELSE [ok |-> FALSE]

SliceBetween(modelText, firstBracket, lastBracket) ==
    IF firstBracket # -1 /\ lastBracket # -1 /\ lastBracket > firstBracket
    THEN [ok |-> TRUE, text |-> Substring(modelText, firstBracket, lastBracket + 1)]
    ELSE [ok |-> FALSE]

\* The slice that ends at the first "]".
SliceArrayFirstClose(modelText) ==
    SliceBetween(modelText, IndexOf(modelText, "["), IndexOf(modelText, "]"))

\* From the first "[" to the last "]" of the trimmed reply.
SliceArray(modelText) ==
    SliceBetween(modelText, IndexOf(modelText, "["), LastIndexOf(modelText, "]"))

\* try { parsed = JSON.parse(jsonText) } catch (e) { throw ... }
ParseSlice(p) ==
    IF ~p.ok THEN Threw(InvalidJsonMessage, <<"trim", "slice", "parse">>)
    ELSE [ok |-> TRUE, parsed |-> p.v, ops |-> <<"trim", "slice", "parse">>]

ExtractSlice(sl) ==
    IF ~sl.ok THEN Threw(NoJsonArrayMessage, <<"trim", "slice">>)
    ELSE ParseSlice(JSONParse(sl.text))

ExtractText(modelText) ==
    IF modelText = "" THEN Threw(EmptyReplyMessage, <<"trim">>)
    ELSE ExtractSlice(SliceArray(modelText))

\* The steps of processExcel from the resolved reply to the parsed array.
\* ops lists the operations performed, in order.
ExtractRecords(modelResult) ==
    IF modelResult.t # "str" THEN Threw(TrimTypeErrorMessage, <<>>)
    ELSE ExtractText(Trim(modelResult.s))

\* ------------------------------------------------------------------------
\* processExcel: reconciliation of the AI records with the original rows
\* ------------------------------------------------------------------------

\* parsed[i] for the 1-based position i of a row (index i - 1 in the code).
ElementAt(parsed, i) ==
    IF parsed.t = "arr" /\ i <= Len(parsed.a) THEN parsed.a[i] ELSE Undefined

EmptyStr == JStr("")

\* The overlay without the '' defaults.
OverlayRowNoDefault(r, aiRaw) ==
    PropSet(PropSet(PropSet(r, "Module", GetProp(Or(aiRaw, JObj(<<>>)), "Module")),
                    "Summarized Problem",
                    Or(GetProp(Or(aiRaw, JObj(<<>>)), "Summarized Problem"),
                       GetProp(Or(aiRaw, JObj(<<>>)), "SummarizedProblem"))),
            "Severity", GetProp(Or(aiRaw, JObj(<<>>)), "Severity"))

\* obj[k] = v only where k is no key yet.
PropKeep(ps, k, v) == IF HasKey(ps, k) THEN ps ELSE Append(ps, Prop(k, v))

\* The overlay in which an original column wins over the AI's field.
OverlayRowOriginalFirst(r, aiRaw) ==
    PropKeep(PropKeep(PropKeep(r, "Module",
                               Or(GetProp(Or(aiRaw, JObj(<<>>)), "Module"), JStr(""))),
                      "Summarized Problem",
                      Or(GetProp(Or(aiRaw, JObj(<<>>)), "Summarized Problem"),
                         Or(GetProp(Or(aiRaw, JObj(<<>>)), "SummarizedProblem"),
                            JStr("")))),
             "Severity", Or(GetProp(Or(aiRaw, JObj(<<>>)), "Severity"), JStr("")))

\* The overlay that reads each field under its canonical key only.
OverlayRowNoAlias(r, aiRaw) ==
    PropSet(PropSet(PropSet(r, "Module",
                            Or(GetProp(Or(aiRaw, JObj(<<>>)), "Module"), JStr(""))),
                    "Summarized Problem",
                    Or(GetProp(Or(aiRaw, JObj(<<>>)), "Summarized Problem"),
                       JStr(""))),
            "Severity", Or(GetProp(Or(aiRaw, JObj(<<>>)), "Severity"), JStr("")))

\* One merged row of the overlay policy: { ...r, Module, 'Summarized Problem',
\* Severity }.
OverlayRow(r, aiRaw) ==
    LET ai == Or(aiRaw, JObj(<<>>))
        withModule ==
            PropSet(r, "Module", Or(GetProp(ai, "Module"), EmptyStr))
        withSummary ==
            PropSet(withModule, "Summarized Problem",
                    Or(GetProp(ai, "Summarized Problem"),
                       Or(GetProp(ai, "SummarizedProblem"), EmptyStr)))
    IN  PropSet(withSummary, "Severity", Or(GetProp(ai, "Severity"), EmptyStr))

\* The map over the AI records instead of the rows.
MergeOverAi(rows, parsed) ==
    [i \in 1..Len(parsed.a) |->
        OverlayRow(IF i <= Len(rows) THEN rows[i] ELSE <<>>, parsed.a[i])]

\* rows.map((r, i) => ...): the rows are property lists, the result a sequence
\* of property lists.
MergeOverlay(rows, parsed) ==
    [i \in 1..Len(rows) |-> OverlayRow(rows[i], ElementAt(parsed, i))]

\* The AI records cut to the number of original rows.
MergeTruncate(rows, parsed) ==
    JArr(SubSeq(parsed.a, 1,
                IF Len(rows) < Len(parsed.a) THEN Len(rows) ELSE Len(parsed.a)))

\* v3 uses the AI records as the output rows (the replace policy).
MergeReplace(rows, parsed) == parsed

\* ------------------------------------------------------------------------
\* Numbers, dates and file names
\* ------------------------------------------------------------------------

\* String(n) for a natural number n.
RECURSIVE NumToStr(_)
NumToStr(n) ==
    IF n < 10 THEN Digits[n + 1]
    ELSE NumToStr(n \div 10) \o Digits[(n % 10) + 1]

\* ('0' + n).slice(-2)
Slice2(t) == SubSeq(t, Len(t) - 1, Len(t))
Pad2(n) == Slice2("0" \o NumToStr(n))

\* new Date() at ms milliseconds after the epoch, in the time zone UTC and
\* within the first day: the values of its getters.
DateAt(ms) ==
    [year |-> 1970, month |-> 0, date |-> 1,
     hours |-> (ms \div 3600000) % 24,
     minutes |-> (ms \div 60000) % 60,
     seconds |-> (ms \div 1000) % 60]

\* The YYYYMMDD-HHMMSS stamp of v3.
Datetime(d) ==
    NumToStr(d.year) \o Pad2(d.month + 1) \o Pad2(d.date) \o "-"
        \o Pad2(d.hours) \o Pad2(d.minutes) \o Pad2(d.seconds)

\* model.replace(/:/g, '')
RECURSIVE ReplaceColons(_)
ReplaceColons(s) ==
    IF Len(s) = 0 THEN ""
    ELSE IF Len(s) = 1 THEN (IF s = ":" THEN "" ELSE s)
    ELSE ReplaceColons(SubSeq(s, 1, Len(s) \div 2))
            \o ReplaceColons(SubSeq(s, Len(s) \div 2 + 1, Len(s)))

\* The name without the original file name.
ProcessedFilenameNoOriginal(model, ms, originalName) ==
    ReplaceColons(model) \o "-" \o Datetime(DateAt(ms)) \o ".xlsx"

\* v3: `${model.replace(/:/g, '')}-${datetime}-${originalName}`
ProcessedFilenameV3(model, ms, originalName) ==
    ReplaceColons(model) \o "-" \o Datetime(DateAt(ms)) \o "-" \o originalName

\* v2: `processed-${Date.now()}-${originalName}`
ProcessedFilenameV2(ms, originalName) ==
    "processed-" \o NumToStr(ms) \o "-" \o originalName

\* multer's filename callback: Date.now() + '-' + file.originalname, under
\* the destination uploads/.
UploadPath(ms, originalName) == "uploads/" \o NumToStr(ms) \o "-" \o originalName

UpperLetters == "ABCDEFGHIJKLMNOPQRSTUVWXYZ"
LowerLetters == "abcdefghijklmnopqrstuvwxyz"

LowerChar(c) ==
    IF \E j \in 1..26 : Ch(UpperLetters, j) = c
    THEN Ch(LowerLetters, CHOOSE j \in 1..26 : Ch(UpperLetters, j) = c)
    ELSE c

\* String.prototype.toLowerCase on ASCII text
RECURSIVE ToLowerCase(_)
ToLowerCase(s) ==
    IF Len(s) = 0 THEN ""
    ELSE IF Len(s) = 1 THEN LowerChar(s)
    ELSE ToLowerCase(SubSeq(s, 1, Len(s) \div 2))
            \o ToLowerCase(SubSeq(s, Len(s) \div 2 + 1, Len(s)))

\* path.extname for a file name without directory separators: from the last
\* '.' on, "" when there is none, when the only one starts the name, or
\* when the name is "..".
FromDot(name, dot) ==
    IF dot <= 0 \/ name = ".." THEN "" ELSE Substring(name, dot, Len(name))

ExtName(name) == FromDot(name, LastIndexOf(name, "."))

\* ext === '.xlsx' || ext === '.xls'
IsExcelName(originalName) ==
    ToLowerCase(ExtName(originalName)) \in {".xlsx", ".xls"}

\* ------------------------------------------------------------------------
\* JSON.stringify and String()
\* ------------------------------------------------------------------------

EscapeChar(c) ==
    CASE c = "\"" -> "\\\""
      [] c = "\\" -> "\\\\"
      [] c = "\n" -> "\\n"
      [] c = "\t" -> "\\t"
      [] c = "\r" -> "\\r"
      [] OTHER -> c

\* The text is halved at each step.
RECURSIVE EscapeString(_)
EscapeString(s) ==
    IF Len(s) = 0 THEN ""
    ELSE IF Len(s) = 1 THEN EscapeChar(s)
    ELSE EscapeString(SubSeq(s, 1, Len(s) \div 2))
            \o EscapeString(SubSeq(s, Len(s) \div 2 + 1, Len(s)))

\* JSON.stringify of a string
JsonQuote(s) == "\"" \o EscapeString(s) \o "\""

IntToStr(n) == IF n < 0 THEN "-" \o NumToStr(0 - n) ELSE NumToStr(n)

RECURSIVE Stringify(_, _)
RECURSIVE StringifyItems(_, _, _)
RECURSIVE StringifyProps(_, _, _)

\* The elements xs[i..] of an array, one per line at indentation ind.
StringifyItems(xs, i, ind) ==
    ind \o Stringify(xs[i], ind)
        \o (IF i = Len(xs) THEN "" ELSE ",\n" \o StringifyItems(xs, i + 1, ind))

\* The properties ps[i..] of an object, one per line at indentation ind.
StringifyProps(ps, i, ind) ==
    ind \o JsonQuote(ps[i].k) \o ": " \o Stringify(ps[i].v, ind)
        \o (IF i = Len(ps) THEN "" ELSE ",\n" \o StringifyProps(ps, i + 1, ind))

\* JSON.stringify(x, null, 2) for a value x without undefined members, the
\* value starting at indentation ind.
Stringify(x, ind) ==
    CASE x.t = "null" -> "null"
      [] x.t = "bool" -> (IF x.b THEN "true" ELSE "false")
      [] x.t = "num" -> IntToStr(x.n)
      [] x.t = "str" -> JsonQuote(x.s)
      [] x.t = "arr" ->
            (IF Len(x.a) = 0 THEN "[]"
             ELSE "[\n" \o StringifyItems(x.a, 1, ind \o "  ") \o "\n" \o ind \o "]")
      [] x.t = "obj" ->
            (IF Len(x.o) = 0 THEN "{}"
             ELSE "{\n" \o StringifyProps(x.o, 1, ind \o "  ") \o "\n" \o ind \o "}")

\* JSON.stringify(rows, null, 2) for the rows of a sheet
StringifyRows(rows) ==
    Stringify(JArr([i \in 1..Len(rows) |-> JObj(rows[i])]), "")

RECURSIVE JoinToString(_, _)

\* The outcomes of a conversion to a string: the string, or the TypeError
\* thrown for an object that has no callable toString or valueOf.
Str(s) == [threw |-> FALSE, s |-> s]
ToPrimitiveTypeError ==
    [threw |-> TRUE, s |-> "Cannot convert object to primitive value"]

\* String(x), the conversion of a template literal.  A parsed object with
\* an own property toString hides Object.prototype.toString behind a value
\* that cannot be called, and valueOf gives no primitive: the conversion
\* throws.  An array converts by join(',').
JsToString(x) ==
    CASE x.t = "undefined" -> Str("undefined")
      [] x.t = "null" -> Str("null")
      [] x.t = "bool" -> Str(IF x.b THEN "true" ELSE "false")
      [] x.t = "num" -> Str(IntToStr(x.n))
      [] x.t = "str" -> Str(x.s)
      [] x.t = "arr" -> JoinToString(x.a, 1)
      [] OTHER -> IF HasKey(x.o, "toString") THEN ToPrimitiveTypeError
                  ELSE Str("[object Object]")

\* The rest of a join from element i + 1 on, after the text of element i.
JoinRest(head, rest, last) ==
    IF head.threw THEN head
    ELSE IF last THEN head
    ELSE IF rest.threw THEN rest
    ELSE Str(head.s \o "," \o rest.s)

\* Array.prototype.join(',') from element i on
JoinToString(xs, i) ==
    IF i > Len(xs) THEN Str("")
    ELSE JoinRest(IF xs[i].t \in {"undefined", "null"} THEN Str("")
                  ELSE JsToString(xs[i]),
                  IF i = Len(xs) THEN Str("") ELSE JoinToString(xs, i + 1),
                  i = Len(xs))

\* ------------------------------------------------------------------------
\* callOllama: the three variants of the response's 'end' handler
\* ------------------------------------------------------------------------

Resolve(v) == [settled |-> "resolved", value |-> v, error |-> ""]
Reject(msg) == [settled |-> "rejected", value |-> Undefined, error |-> msg]

\* v1: resolve(jsonResponse.response).  A property read on null throws
\* inside the try and is caught like a parse error.
EndParsedV1(p) ==
    IF ~p.ok \/ p.v.t = "null"
    THEN Reject("Failed to parse Ollama response")
    ELSE Resolve(GetProp(p.v, "response"))

EndV1(responseData) == EndParsedV1(JSONParse(responseData))

\* The reply of v2: the first of response, output, result that is neither
\* null nor undefined, else the raw body.
ReplyOf(j, responseData) ==
    Nullish(GetProp(j, "response"),
            Nullish(GetProp(j, "output"),
                    Nullish(GetProp(j, "result"), JStr(responseData))))

\* !reply || (typeof reply === 'string' && reply.trim().length === 0)
IsEmptyReply(reply) ==
    ~Truthy(reply) \/ (reply.t = "str" /\ Len(Trim(reply.s)) = 0)

\* jsonResponse && jsonResponse.error
HasBackendError(j) == Truthy(j) /\ Truthy(GetProp(j, "error"))

EndReplyV2(reply) ==
    IF IsEmptyReply(reply) THEN Reject(EmptyReplyMessage) ELSE Resolve(reply)

\* reject(new Error(`Ollama error: ${jsonResponse.error}`)); a throw of the
\* template literal is caught like a parse error.
EndErrorV2(text) ==
    IF text.threw THEN Reject("Failed to parse Ollama response")
    ELSE Reject("Ollama error: " \o text.s)

\* v2: the error field, the fallback fields, the empty reply.
EndParsedV2(p, responseData) ==
    IF ~p.ok THEN Reject("Failed to parse Ollama response")
    ELSE IF HasBackendError(p.v)
         THEN EndErrorV2(JsToString(GetProp(p.v, "error")))
    ELSE IF p.v.t = "null" THEN Reject("Failed to parse Ollama response")
    ELSE EndReplyV2(ReplyOf(p.v, responseData))

EndV2(responseData) == EndParsedV2(JSONParse(responseData), responseData)

\* v3: resolve(jsonResponse.response ?? jsonResponse); err.message is left
\* as the name of the error.
EndParsedV3(p) ==
    IF ~p.ok THEN Reject("Failed to parse Ollama response: SyntaxError")
    ELSE IF p.v.t = "null"
         THEN Reject("Failed to parse Ollama response: TypeError")
    ELSE Resolve(Nullish(GetProp(p.v, "response"), p.v))

EndV3(responseData) == EndParsedV3(JSONParse(responseData))

OnEnd(v, responseData) ==
    CASE v = "v1" -> EndV1(responseData)
      [] v = "v2" -> EndV2(responseData)
      [] v = "v3" -> EndV3(responseData)

\* req.on('error'): reject(new Error('Failed to connect to Ollama: ' + message))
OnError(message) == Reject("Failed to connect to Ollama: " \o message)

\* ------------------------------------------------------------------------
\* The prompt builders
\* ------------------------------------------------------------------------

\* a || b on strings: the empty string is the only falsy one; an absent field
\* of the request body reads as the empty string here, and is named in the
\* request's absent set where a handler reads it without the ||.
OrStr(a, b) == IF a = "" THEN b ELSE a

\* v1, src/server.js 99-120 and 150-171
PromptV1(processingType, customPrompt, inputText) ==
    CASE processingType = "summarize" ->
            "Please provide a concise summary of the following text:\n\n"
                \o inputText
      [] processingType = "analyze" ->
            "Please analyze the following text and provide key insights:\n\n"
                \o inputText
      [] processingType = "extract" ->
            "Please extract the key points and important information from the following text:\n\n"
                \o inputText
      [] processingType = "translate" ->
            "Please translate the following text to English (if it's not already in English, otherwise keep it as is):\n\n"
                \o inputText
      [] processingType = "questions" ->
            "Based on the following text, generate 5 important questions and provide answers:\n\n"
                \o inputText
      [] processingType = "custom" -> customPrompt \o "\n\n" \o inputText
      [] OTHER -> inputText

\* v2 and v3, text and plain-file routes
PromptText(processingType, customPrompt, inputText) ==
    IF processingType = "custom" THEN customPrompt \o "\n\n" \o inputText
    ELSE inputText

\* The instruction block of the 'voc' mode in src/unnamed/part_000, up to
\* the rows; each character outside ASCII is written "?".
VocInstructionsV2 ==
       "You are a data-cleaning assistant for Voice of Problem analysis reported by Customer.\n"
    \o "Your goal is to process each row of customer feedback data and produce a cleaned, summarized problem statement for product analysis.\n"
    \o "\n"
    \o "Task\n"
    \o "For each row in the input data:\n"
    \o "Combine and clean the Title and Problem fields to create one clear, concise English sentence that describes the actual user issue.\n"
    \o "Identify the product module or area the issue belongs to (e.g., ?Lock Screen?, ?Camera?, ?Battery?, ?Network?, ?Settings?).\n"
    \o "Determine the severity of the issue based on user impact. Calculate the severity by analyzing the Context of the problem.\n"
    \o "\n"
    \o "Rules\n"
    \o "Ignore any IDs, usernames, timestamps, or tags enclosed in square brackets [ ... ] (e.g., [Samsung Members][AppName: Samsung Members]).\n"
    \o "Merge logically ? don?t repeat words or phrases unnecessarily.\n"
    \o "Use one complete sentence in the ?Summarized Problem? field.\n"
    \o "Avoid internal notes or diagnostic language (e.g., ?log ??? or ?H/W check required?).\n"
    \o "Always output valid, strict JSON that can be parsed directly.\n"
    \o "\n"
    \o "Severity Guidelines\n"
    \o "Choose the severity level that best reflects the user impact:\n"
    \o "Critical ? Device unusable, data loss, or crash.\n"
    \o "High ? Major feature not working as expected.\n"
    \o "Medium ? Partial malfunction or intermittent issue.\n"
    \o "Low ? Minor, cosmetic, or suggestion-level issue.\n"
    \o "\n"
    \o "Expected Output Format\n"
    \o "Return only a single JSON array where each object includes exactly these keys:\n"
    \o "\n"
    \o "[\n"
    \o "  {\n"
    \o "    \"Module\": \"Lock Screen\",\n"
    \o "    \"Summarized Problem\": \"The Sports option from Google is unavailable on the Lock Screen of the Galaxy S24 Ultra.\",\n"
    \o "    \"Severity\": \"Medium\"\n"
    \o "  }\n"
    \o "]\n"
    \o "\n"
    \o "Example Input\n"
    \o "[\n"
    \o "  {\n"
    \o "    \"Title\": \"[Samsung Members][64338785][AppName: Samsung Members][Lock Screen] Sports from Google option is not available in S24 ultra\",\n"
    \o "    \"Problem\": \"Sports from Google option is not available in S24 ultra: [Samsung Members Notice] Log? ????? H/W ??? ????? ??? ?? ?? ??? ?? ??? ??? ???? Resolve ????.\"\n"
    \o "  }\n"
    \o "]\n"
    \o "\n"
    \o "Output Requirements\n"
    \o "\n"
    \o "Output only the JSON array (no explanations, commentary, or extra text).\n"
    \o "The JSON must be valid and properly structured.\n"
    \o "Srtictly follow this output JSON format after merged into Excel, the resulting file must contain the following columns in this exact sequence:\n"
    \o "Case Code, Model No., Title, Problem, Module, Summarized Problem, Severity\n"
    \o "Each object should correspond to one input row, preserving the order.\n"
    \o "Final Output Columns\n"
    \o "\n"
    \o "\n"
    \o "Input:\n"

\* The instruction block of the 'voc' mode in src/server.js, up to the
\* rows; each character outside ASCII is written "?".
VocInstructionsV3 ==
       "You are a data-cleaning assistant for Voice of Problem analysis reported by customers.\n"
    \o "Your goal is to process each row of customer feedback data, extract meaningful insights, and generate structured outputs for Excel.\n"
    \o "\n"
    \o "\n"
    \o "For each row in the input data:\n"
    \o "\n"
    \o "Merge & Clean\n"
    \o "Combine and clean the Title and Problem fields into one single clear English sentence that accurately describes the real user issue.\n"
    \o "\n"
    \o "Module Identification\n"
    \o "Identify the correct product module or functional area the issue belongs to\n"
    \o "(e.g., Lock Screen, Camera, Battery, Network, Settings, Display, App Permissions, etc.).\n"
    \o "\n"
    \o "Severity Classification\n"
    \o "Determine severity based on user impact, using the rules below.\n"
    \o "\n"
    \o "Severity Reason\n"
    \o "Provide 1 concise sentence explaining why the chosen severity applies\n"
    \o "(e.g., ?Major feature not working?, ?Cosmetic issue only?, ?Device freeze causing usability problems?, etc.).\n"
    \o "\n"
    \o "Output JSON Object\n"
    \o "For each row, produce one JSON object containing EXACTLY these keys in this order:\n"
    \o "\n"
    \o "Case Code,\n"
    \o "Model No.,\n"
    \o "Title,\n"
    \o "Problem,\n"
    \o "Module,\n"
    \o "Summarized Problem,\n"
    \o "Severity,\n"
    \o "Severity Reason\n"
    \o "\n"
    \o "?? Rules\n"
    \o "Text Cleaning Rules\n"
    \o "\n"
    \o "Remove IDs, usernames, timestamps, tags or anything inside [ ... ].\n"
    \o "Example: [Samsung Members][AppName: Samsung Members] ? ignored\n"
    \o "\n"
    \o "Translate non-English text to English.\n"
    \o "Avoid duplication when merging Title + Problem.\n"
    \o "Avoid internal diagnostic notes (e.g., ?log ???, ?H/W check needed?).\n"
    \o "Output one complete sentence for Summarized Problem.\n"
    \o "\n"
    \o "?? Severity Guidelines\n"
    \o "\n"
    \o "Choose the severity that best reflects real customer impact:\n"
    \o "\n"
    \o "Severity\tWhen to Use\n"
    \o "Critical\tDevice unusable, boot failure, data loss, crashes, freezing.\n"
    \o "High\tMajor feature not working (e.g., Camera fails, Wi-Fi not connecting).\n"
    \o "Medium\tPartial malfunction, occasional failure, degraded experience.\n"
    \o "Low\tMinor UI issue, cosmetic problem, suggestion or enhancement request.\n"
    \o "\n"
    \o "?? Output Format Requirements\n"
    \o "\n"
    \o "Return a single JSON array.\n"
    \o "No explanations outside the JSON.\n"
    \o "The JSON must be valid and strictly parseable.\n"
    \o "Each output object must preserve the input order.\n"
    \o "Output must match this structural sequence:\n"
    \o "\n"
    \o "Case Code,\n"
    \o "Model No.,\n"
    \o "Title,\n"
    \o "Problem,\n"
    \o "Module,\n"
    \o "Summarized Problem,\n"
    \o "Severity,\n"
    \o "Severity Reason\n"
    \o "\n"
    \o "?? Example Input\n"
    \o "[\n"
    \o "  {\n"
    \o "    \"Case Code\": \"C-001\",\n"
    \o "    \"Model No.\": \"Galaxy S24U\",\n"
    \o "    \"Title\": \"[Samsung Members][64338785][AppName: Samsung Members][Lock Screen] Sports from Google option is not available in S24 ultra\",\n"
    \o "    \"Problem\": \"Sports from Google option is not available in S24 ultra: [Samsung Members Notice] Log? ????? H/W ??? ????? ??? ?? ?? ??? ?? ??? ??? ???? Resolve ????.\"\n"
    \o "  }\n"
    \o "]\n"
    \o "\n"
    \o "?? Example Output\n"
    \o "[\n"
    \o "  {\n"
    \o "    \"Case Code\": \"C-001\",\n"
    \o "    \"Model No.\": \"Galaxy S24U\",\n"
    \o "    \"Title\": \"Sports from Google option is not available in S24 ultra\",\n"
    \o "    \"Problem\": \"Sports from Google option is not available in S24 ultra: Log? ????? H/W ??? ????? ??? ?? ?? ??? ?? ??? ??? ???? Resolve ????.\",\n"
    \o "    \"Module\": \"Lock Screen\",\n"
    \o "    \"Summarized Problem\": \"The Google Sports option is missing from the Lock Screen on the Galaxy S24 Ultra.\",\n"
    \o "    \"Severity\": \"Medium\",\n"
    \o "    \"Severity Reason\": \"A Lock Screen feature is missing, causing partial functionality loss but not affecting core device operation.\"\n"
    \o "  }\n"
    \o "]\n"
    \o "\n"
    \o "\n"
    \o "Input:\n"

\* The instruction block of the variant's processExcel; the rows follow it.
VocInstructions(v) ==
    IF v = "v2" THEN VocInstructionsV2 ELSE VocInstructionsV3

\* processExcel's modelPrompt
PromptAround(v, processingType, customPrompt, rowsJson) ==
    IF processingType = "voc"
    THEN VocInstructions(v) \o rowsJson \o "\n\nReturn only the JSON array."
    ELSE customPrompt \o "\n\n" \o rowsJson

PromptExcel(v, processingType, customPrompt, rows) ==
    PromptAround(v, processingType, customPrompt, StringifyRows(rows))

\* ------------------------------------------------------------------------
\* Requests, files and the backend's bodies
\* ------------------------------------------------------------------------

ExampleRow ==
    <<Prop("Title", JStr("[X][Y] battery drains fast")),
      Prop("Problem", JStr("loses 20% per hour"))>>

\* A row with columns named like the AI-derived ones.
ClashRow ==
    <<Prop("Case Code", JStr("C-001")), Prop("Module", JStr("Old")),
      Prop("Severity", JNum(3))>>

\* A row of ClashRow's sheet with blank cells: with { defval: '' } a blank
\* cell is decoded as "", so every row of a sheet has every column.
BlankCellsRow ==
    <<Prop("Case Code", JStr("C-002")), Prop("Module", JStr("")),
      Prop("Severity", JStr(""))>>

\* The sheets of the uploaded workbooks, as sheet_to_json decodes them with
\* { defval: '' }: the rows of one sheet have the columns of its header.
Sheets == << <<ExampleRow>>, <<ClashRow, BlankCellsRow>>, <<>> >>

\* The uploaded files: the name, the content read as text (of a workbook
\* its first bytes), the sheet (0 for a file that is no workbook) and the
\* size in bytes.
FileSamples ==
    << [originalname |-> "report.xlsx", text |-> "PK", sheet |-> 1, size |-> 8192],
       [originalname |-> "DATA.XLS", text |-> "PK", sheet |-> 2, size |-> 16384],
       [originalname |-> "empty.xlsx", text |-> "PK", sheet |-> 3, size |-> 4096],
       [originalname |-> "notes.txt", text |-> "some notes", sheet |-> 0, size |-> 10],
       [originalname |-> "blank.txt", text |-> "", sheet |-> 0, size |-> 0],
       [originalname |-> "big.xlsx", text |-> "PK", sheet |-> 1, size |-> 10485761] >>

ExampleReply ==
    "Sure, here is the result:\n[{\"Module\":\"Battery\",\"Summarized Problem\":\"Battery drains rapidly, losing about 20% per hour.\",\"Severity\":\"High\"}]\nLet me know if you need more."

\* The texts a model replies with.
Replies ==
    { ExampleReply,
      "[]",
      "no array here",
      "] backwards [",
      "only [",
      "only ]",
      "   ",
      "",
      "[not json]",
      "see [1]: [{\"Module\":\"A\"}]",
      "[{\"Module\":\"Camera\",\"SummarizedProblem\":\"Blurry\",\"Severity\":\"Low\",\"Severity Reason\":\"Cosmetic\"},{\"Module\":0},{\"Module\":\"Extra\"}]" }

\* The bodies the backend answers with.
Bodies ==
    { "{\"response\":" \o JsonQuote(r) \o "}" : r \in Replies }
    \cup
    { "{\"error\":\"model not found\"}",
      "{\"error\":\"boom\",\"response\":\"partial\"}",
      "{\"error\":\"\"}",
      "{\"error\":{\"toString\":1}}",
      "{}",
      "null",
      "not json",
      "\"just a string\"",
      "{\"output\":\"from output\"}",
      "{\"result\":\"from result\"}",
      "{\"response\":null,\"output\":\"alt\"}",
      "{\"response\":\"\",\"output\":\"alt\"}",
      "{\"response\":5}",
      "{\"response\":0}" }

ProcessingTypes == {"", "custom", "voc", "summarize"}
CustomPrompts == {"", "Clean this"}
Texts == {"", "hello"}
ModelIds == {"", "a:1"}

Rq(route, text, file, pt, cp, model) ==
    [route |-> route, text |-> text, file |-> file, processingType |-> pt,
     customPrompt |-> cp, model |-> model, absent |-> {}]

\* The request without the body field: the field reads undefined.
Without(r, field) == [r EXCEPT !.absent = @ \cup {field}]

\* The requests sent to variant v: file is an index of FileSamples, 0 for no
\* file part; the fields a route does not read are left empty.  A field
\* that is "" is sent empty or not sent, which differs only where the
\* handler reads it without a default: the customPrompt of v1's
\* /api/process-text.
Requests(v) ==
    IF v = "v1" THEN
        { Rq("/api/process", "", f, pt, cp, "") :
            f \in 1..Len(FileSamples), pt \in ProcessingTypes, cp \in CustomPrompts }
        \cup { Rq("/api/process", t, 0, pt, cp, "") :
            t \in Texts, pt \in ProcessingTypes, cp \in CustomPrompts }
        \cup { Rq("/api/process-text", t, 0, pt, cp, "") :
            t \in Texts, pt \in ProcessingTypes, cp \in CustomPrompts }
        \cup { Without(Rq("/api/process-text", t, 0, pt, "", ""), "customPrompt") :
            t \in Texts, pt \in ProcessingTypes }
    ELSE
        { Rq("/api/process", "", f, pt, cp, m) :
            f \in 0..Len(FileSamples), pt \in ProcessingTypes,
            cp \in CustomPrompts, m \in (IF v = "v3" THEN ModelIds ELSE {""}) }
        \cup { Rq("/api/process/text", t, 0, pt, cp, m) :
            t \in Texts, pt \in ProcessingTypes,
            cp \in CustomPrompts, m \in (IF v = "v3" THEN ModelIds ELSE {""}) }

\* ------------------------------------------------------------------------
\* The server: state
\* ------------------------------------------------------------------------

VARIABLES
    variant,    \* the server that runs: "v1", "v2" or "v3"
    req,        \* the request being handled
    backend,    \* what the backend does with a call: "responds", "refuses", "silent"
    pc,         \* "new", "ready", "await" (suspended on callOllama), "done"
    filePath,   \* req.file.path, "" without a file
    call,       \* the call of callOllama
    resp,       \* the response sent, status 0 before
    uploads,    \* the paths in uploads/
    downloads,  \* the files of downloads/, in the order written
    now,        \* Date.now()
    ops,        \* the operations the handler has performed, in order
    fnIn,       \* the arguments of a function applied on its own
    fnOut,      \* its result
    procs,      \* the requests of a server that handles several at a time
    ui          \* the page of public/script.js

vars == <<variant, req, backend, pc, filePath, call, resp, uploads, downloads,
          now, ops, fnIn, fnOut, procs, ui>>

serverVars == <<variant, req, backend, pc, filePath, call, resp, uploads,
                downloads, now, ops>>

\* The most the clock advances between two readings, in milliseconds.
MaxTick == 1

\* A promise that has not settled.
Pending == [settled |-> "pending", value |-> Undefined, error |-> ""]

\* body is the response body received, outcome the settlement of the promise.
NoCall == [state |-> "none", prompt |-> "", model |-> "", excel |-> FALSE,
           inputLength |-> 0, error |-> "", body |-> "", outcome |-> Pending]

NoResp == [status |-> 0, success |-> "absent", error |-> "", result |-> Undefined,
           downloadUrl |-> "", filename |-> "", inputLength |-> -1,
           html |-> FALSE]

\* The answer of express to an error passed to next(err) when no error
\* handler is registered: status 500 and an HTML page, no JSON body.
ExpressError == [NoResp EXCEPT !.status = 500, !.html = TRUE]

\* limits: { fileSize: 10 * 1024 * 1024 } of multer
FileSizeLimit == 10485760

\* res.status(status).json({ error })
ErrorBody(status, msg) == [NoResp EXCEPT !.status = status, !.error = msg]

\* res.status(500).json({ success: false, error })
ExcelError(msg) ==
    [NoResp EXCEPT !.status = 500, !.success = "false", !.error = msg]

\* res.json({ success: true, result, inputLength })
TextOk(result, len) ==
    [NoResp EXCEPT !.status = 200, !.success = "true", !.result = result,
                   !.inputLength = len]

\* res.json({ success: true, downloadUrl, filename })
ExcelOk(filename) ==
    [NoResp EXCEPT !.status = 200, !.success = "true",
                   !.downloadUrl = "/downloads/" \o filename,
                   !.filename = filename]

File == FileSamples[req.file]
HasFile == req.file # 0
Rows == Sheets[File.sheet]

\* The model a handler passes to callOllama, or callOllama's default.
ModelOf(v, r) ==
    CASE v = "v1" -> "qwen2.5:3b"
      [] v = "v2" -> "gemma3:4b"
      [] v = "v3" -> OrStr(r.model, "gemma3:4b")

\* Whether the route runs multer's upload.single('file').
HasUploadMiddleware(r) == r.route = "/api/process"

\* Whether the handler hands the request to processExcel.
IsExcelRequest(v, r) ==
    /\ v # "v1"
    /\ r.route = "/api/process"
    /\ r.file # 0
    /\ IsExcelName(FileSamples[r.file].originalname)

\* Whether the handler reads the uploaded file as text and deletes it before
\* the call: always in v1, for files that are no workbooks in v2 and v3.
ReadsFileAsText(r, excel) == r.route = "/api/process" /\ r.file # 0 /\ ~excel

\* The input text of a request that is not handed to processExcel.
InputText(r, excel) ==
    IF ReadsFileAsText(r, excel) THEN FileSamples[r.file].text ELSE r.text

\* The handler without its input check.
InputMissingNever(v, r) == ""

\* The handler's input check: the message of its 400 response, "" if the
\* request passes.
InputMissing(v, r) ==
    IF r.route = "/api/process"
    THEN IF r.file # 0 THEN ""
         ELSE IF v = "v1"
              THEN (IF r.text = "" THEN "No file or text provided" ELSE "")
              ELSE "No file provided"
    ELSE IF r.text = "" THEN "No text provided" ELSE ""

\* `${customPrompt}` of v1's /api/process-text, which destructures req.body
\* without defaults: an absent field is the text "undefined".
TemplateOf(r, field) ==
    IF field \in r.absent THEN "undefined" ELSE r[field]

\* The prompt the handler builds.
BuildTextPrompt(v, r, inputText) ==
    IF v = "v1"
    THEN IF r.route = "/api/process"
         THEN PromptV1(OrStr(r.processingType, "custom"), r.customPrompt,
                       inputText)
         ELSE PromptV1(r.processingType, TemplateOf(r, "customPrompt"),
                       inputText)
    ELSE PromptText(OrStr(r.processingType, "custom"), r.customPrompt, inputText)

BuildPrompt(v, r, excel, inputText) ==
    IF excel
    THEN PromptExcel(v, OrStr(r.processingType, "custom"), r.customPrompt,
                     Sheets[FileSamples[r.file].sheet])
    ELSE BuildTextPrompt(v, r, inputText)

\* ------------------------------------------------------------------------
\* The server: actions
\* ------------------------------------------------------------------------

ServerIdle ==
    /\ variant = "none" /\ req = Rq("", "", 0, "", "", "")
    /\ backend = "none" /\ pc = "off" /\ filePath = ""
    /\ call = NoCall /\ resp = NoResp
    /\ uploads = {} /\ downloads = <<>> /\ now = 0 /\ ops = <<>>

NoFn == [fn |-> "none"]

\* No concurrent requests, and no page open.
NoProcs == <<>>
NoUi == [page |-> "closed"]

Init ==
    /\ variant \in {"v1", "v2", "v3"}
    /\ req \in Requests(variant)
    /\ backend \in {"responds", "refuses", "silent"}
    /\ pc = "new"
    /\ filePath = ""
    /\ call = NoCall
    /\ resp = NoResp
    /\ uploads = {}
    /\ downloads = <<>>
    /\ now = 1000
    /\ ops = <<>>
    /\ fnIn = NoFn /\ fnOut = NoFn
    /\ procs = NoProcs /\ ui = NoUi

\* express.json() and, on /api/process, multer: a file part is stored under
\* uploads/ before the handler runs.  A part over the size limit is an
\* error of multer: nothing stays in uploads/, the handler is not called
\* and express answers.
Middleware ==
    /\ pc = "new"
    /\ IF HasUploadMiddleware(req) /\ HasFile
       THEN IF File.size > FileSizeLimit
            THEN /\ pc' = "done"
                 /\ resp' = ExpressError
                 /\ UNCHANGED <<filePath, uploads>>
            ELSE /\ pc' = "ready"
                 /\ filePath' = UploadPath(now, File.originalname)
                 /\ uploads' = uploads \cup {filePath'}
                 /\ UNCHANGED resp
       ELSE /\ pc' = "ready"
            /\ UNCHANGED <<filePath, uploads, resp>>
    /\ UNCHANGED <<variant, req, backend, call, downloads, now, ops,
                   fnIn, fnOut, procs, ui>>

\* The handler up to its await of callOllama: the input check, the reading
\* and deletion of a file read as text, the prompt, and the request sent.
CallOllama(v, r, excel, inputText) ==
    /\ pc' = "await"
    /\ call' = [state |-> "pending",
                prompt |-> BuildPrompt(v, r, excel, inputText),
                model |-> ModelOf(v, r),
                excel |-> excel,
                inputLength |-> Len(inputText),
                error |-> "", body |-> "", outcome |-> Pending]
    /\ IF ReadsFileAsText(r, excel)
       THEN /\ uploads' = uploads \ {filePath}
            /\ ops' = ops \o <<"readFile", "unlinkUpload", "callOllama">>
       ELSE /\ UNCHANGED uploads
            /\ ops' = ops \o (IF excel THEN <<"readWorkbook", "callOllama">>
                              ELSE <<"callOllama">>)
    /\ UNCHANGED resp

CheckInput(v, r, missing, excel) ==
    IF missing # ""
    THEN /\ pc' = "done"
         /\ resp' = ErrorBody(400, missing)
         /\ ops' = Append(ops, "respond")
         /\ UNCHANGED <<call, uploads>>
    ELSE CallOllama(v, r, excel, InputText(r, excel))

HandleRequest ==
    /\ pc = "ready"
    /\ CheckInput(variant, req, InputMissing(variant, req),
                  IsExcelRequest(variant, req))
    /\ UNCHANGED <<variant, req, backend, filePath, downloads, now, fnIn, fnOut,
                   procs, ui>>

\* The merged rows as the objects of a JSON array.
RowObjects(merged) == [i \in 1..Len(merged) |-> JObj(merged[i])]

\* The replace policy whatever the variant.
ReconcileReplace(v, rows, parsed) == parsed

\* The output rows of processExcel: the overlay of v2, the AI records of v3.
\* The rows are kept as a JSON array of objects.
Reconcile(v, rows, parsed) ==
    IF v = "v2"
    THEN JArr(RowObjects(MergeOverlay(rows, parsed)))
    ELSE MergeReplace(rows, parsed)

\* The name of the output file, read off the clock at ms.
ProcessedFilename(v, model, ms, originalName) ==
    IF v = "v2" THEN ProcessedFilenameV2(ms, originalName)
    ELSE ProcessedFilenameV3(model, ms, originalName)

\* A write that leaves the directory as it was.
WriteNothing(files, path, content) == files

\* fs.writeFileSync(path, content) on the files of downloads/
WriteFile(files, path, content) ==
    IF \E j \in 1..Len(files) : files[j].path = path
    THEN [j \in 1..Len(files) |->
            IF files[j].path = path THEN [path |-> path, content |-> content]
            ELSE files[j]]
    ELSE Append(files, [path |-> path, content |-> content])

\* The rest of a handler that is not processExcel, once callOllama has
\* settled with st.
FinishText(st) ==
    /\ resp' = IF st.settled = "resolved"
               THEN TextOk(st.value, call.inputLength)
               ELSE ErrorBody(500, st.error)
    /\ ops' = Append(ops, "respond")
    /\ UNCHANGED <<uploads, downloads, now>>

\* The end of processExcel's try block from the write on: the write of the
\* output under name, the deletion of the upload and the response.  wrote
\* and unlinked are the outcomes of the two file system calls, written the
\* files of downloads/ after the write; a throw ends in the catch block.
\* The write throws when downloads/ is missing; the unlink throws when the
\* upload is no longer in uploads/, another process having removed it.
WriteAndRespond(ex, name, written, t, wrote, unlinked) ==
    /\ now' = t
    /\ IF ~wrote
       THEN /\ resp' = ExcelError("ENOENT: no such file or directory, open '"
                                  \o "downloads/" \o name \o "'")
            /\ ops' = ops \o ex.ops \o <<"merge", "respond">>
            /\ UNCHANGED <<uploads, downloads>>
       ELSE IF ~unlinked
       THEN /\ resp' = ExcelError("ENOENT: no such file or directory, unlink '"
                                  \o filePath \o "'")
            /\ ops' = ops \o ex.ops \o <<"merge", "write", "respond">>
            /\ downloads' = written
            /\ uploads' = uploads \ {filePath}
       ELSE /\ resp' = ExcelOk(name)
            /\ ops' = ops \o ex.ops \o <<"merge", "write", "unlink", "respond">>
            /\ downloads' = written
            /\ uploads' = uploads \ {filePath}

\* The output of processExcel for the parsed records ex, named off the clock
\* at t.
WriteOutput(ex, name, t, wrote, unlinked) ==
    WriteAndRespond(ex, name,
                    WriteFile(downloads, "downloads/" \o name,
                              Reconcile(variant, Rows, ex.parsed)),
                    t, wrote, unlinked)

\* processExcel with a catch block that deletes the upload.
FinishExcelCleanup(st, ex) ==
    IF st.settled = "rejected"
    THEN /\ resp' = ExcelError(st.error)
         /\ ops' = Append(ops, "respond")
         /\ uploads' = uploads \ {filePath}
         /\ UNCHANGED <<downloads, now>>
    ELSE IF ~ex.ok
    THEN /\ resp' = ExcelError(ex.error)
         /\ ops' = ops \o ex.ops \o <<"respond">>
         /\ uploads' = uploads \ {filePath}
         /\ UNCHANGED <<downloads, now>>
    ELSE \E t \in now..(now + MaxTick), wrote \in BOOLEAN, unlinked \in BOOLEAN :
            WriteOutput(ex,
                        ProcessedFilename(variant, call.model, t, File.originalname),
                        t, wrote, unlinked)

\* The rest of processExcel once callOllama has settled with st and the
\* extraction has given ex: reconciliation, the output and the response;
\* every throw ends in the catch block's 500 response.
FinishExcel(st, ex) ==
    IF st.settled = "rejected"
    THEN /\ resp' = ExcelError(st.error)
         /\ ops' = Append(ops, "respond")
         /\ UNCHANGED <<uploads, downloads, now>>
    ELSE IF ~ex.ok
    THEN /\ resp' = ExcelError(ex.error)
         /\ ops' = ops \o ex.ops \o <<"respond">>
         /\ UNCHANGED <<uploads, downloads, now>>
    ELSE \E t \in now..(now + MaxTick), wrote \in BOOLEAN, unlinked \in BOOLEAN :
            WriteOutput(ex,
                        ProcessedFilename(variant, call.model, t, File.originalname),
                        t, wrote, unlinked)

\* callOllama settles with st, having received body, and the awaiting
\* handler runs to its response.
Settle(st, body) ==
    /\ pc' = "done"
    /\ call' = [call EXCEPT !.state = "settled", !.outcome = st, !.body = body]
    /\ IF call.excel
       THEN FinishExcel(st, ExtractRecords(st.value))
       ELSE FinishText(st)
    /\ UNCHANGED <<variant, req, backend, filePath, fnIn, fnOut, procs, ui>>

\* The backend answers: res.on('end') with the whole body.
ResponseEnd ==
    /\ pc = "await" /\ call.state = "pending" /\ backend = "responds"
    /\ \E body \in Bodies : Settle(OnEnd(variant, body), body)

\* The connection fails: req.on('error').
ConnectError ==
    /\ pc = "await" /\ call.state = "pending" /\ backend = "refuses"
    /\ Settle(OnError("connect ECONNREFUSED 127.0.0.1:11434"), "")

\* Whether callOllama sets a socket timeout: v2 by the timeout option and
\* its 'timeout' listener, v3 by req.setTimeout; v1 sets none.
HasTimeout(v) == v \in {"v2", "v3"}

\* The socket stays idle for the configured time: v2 destroys the request
\* with its own error, v3 aborts it.
SocketTimeout ==
    /\ pc = "await" /\ call.state = "pending" /\ backend = "silent"
    /\ HasTimeout(variant)
    /\ call' = [call EXCEPT !.state = "destroyed",
                            !.error = IF variant = "v2"
                                      THEN "Request to Ollama timed out"
                                      ELSE "socket hang up"]
    /\ UNCHANGED <<variant, req, backend, pc, filePath, resp, uploads,
                   downloads, now, ops, fnIn, fnOut, procs, ui>>

\* The destroyed request emits 'error'.
DestroyedError ==
    /\ pc = "await" /\ call.state = "destroyed"
    /\ Settle(OnError(call.error), "")

Next ==
    \/ Middleware
    \/ HandleRequest
    \/ ResponseEnd
    \/ ConnectError
    \/ SocketTimeout
    \/ DestroyedError

Spec == Init /\ [][Next]_vars

\* ------------------------------------------------------------------------
\* The extraction applied on its own
\* ------------------------------------------------------------------------

\* The longest prose put before and after the array.
MaxProse == 2

ProseChars == {"x", " ", "[", "]"}

RECURSIVE ProseUpTo(_)
ProseUpTo(n) ==
    IF n = 0 THEN {""}
    ELSE ProseUpTo(n - 1) \cup {p \o c : p \in ProseUpTo(n - 1), c \in ProseChars}

\* Well-formed JSON arrays.
ArrayTexts ==
    { "[]",
      "[1]",
      "[[1],[2]]",
      "[\"a]b\", {\"k\": [true, null]}]",
      "[{\"Module\":\"A\"},{\"Module\":\"B\"}]" }

InitExtract ==
    /\ ServerIdle
    /\ fnIn \in { [fn |-> "extract", pre |-> a, array |-> b, post |-> c] :
                    a \in ProseUpTo(MaxProse), b \in ArrayTexts,
                    c \in ProseUpTo(MaxProse) }
    /\ fnOut = NoFn
    /\ procs = NoProcs /\ ui = NoUi

\* processExcel's extraction on the reply pre + array + post.
ApplyExtract ==
    /\ fnIn.fn = "extract" /\ fnOut = NoFn
    /\ fnOut' = [fn |-> "extract",
                 r |-> ExtractRecords(JStr(fnIn.pre \o fnIn.array \o fnIn.post))]
    /\ UNCHANGED <<serverVars, fnIn, procs, ui>>

SpecExtract == InitExtract /\ [][ApplyExtract]_vars

\* The extraction has given the parsed value of the array put in.
YieldsTheArray ==
    /\ fnOut.r.ok
    /\ fnOut.r.parsed = JSONParse(fnIn.array).v

\* C1, as stated: whatever the prose before and after a well-formed array,
\* the extraction yields that array's parsed value.
C1_AnyProse == fnOut.fn = "extract" => YieldsTheArray

\* C1, amended: when the prose before the array holds no "[" and the prose
\* after it no "]", the extraction yields that array's parsed value.
C1_ProseWithoutBrackets ==
    (/\ fnOut.fn = "extract"
     /\ IndexOf(fnIn.pre, "[") = -1
     /\ IndexOf(fnIn.post, "]") = -1)
        => YieldsTheArray

\* An array of two elements has been extracted from between two proses.
C1_Witness ==
    /\ fnOut.fn = "extract"
    /\ Len(fnIn.pre) = MaxProse /\ Len(fnIn.post) = MaxProse
    /\ IndexOf(fnIn.pre, "[") = -1 /\ IndexOf(fnIn.post, "]") = -1
    /\ fnOut.r.ok /\ Len(fnOut.r.parsed.a) = 2

\* ------------------------------------------------------------------------
\* The overlay applied on its own
\* ------------------------------------------------------------------------

\* The most rows of a sheet, and the most records of an AI array.
MaxRows == 2
MaxAi == 2

\* A row with a column named like an AI-derived one.
NotedRow ==
    <<Prop("Summarized Problem", JStr("old text")), Prop("Note", JStr(""))>>

\* A second row of ExampleRow's sheet, its Problem cell blank.
ShortRow ==
    <<Prop("Title", JStr("Screen flickers")), Prop("Problem", JStr(""))>>

RowSamples == <<ExampleRow, ShortRow, ClashRow, BlankCellsRow, NotedRow>>

\* The rows of one sheet have the same columns in the same order.
Columns(row) == [j \in 1..Len(row) |-> row[j].k]
SameColumns(rows) ==
    \A i \in 1..Len(rows), j \in 1..Len(rows) : Columns(rows[i]) = Columns(rows[j])

\* The elements of an AI array: a full record, one with the alias and a
\* severity reason, a partial one, one with falsy values, null, a number,
\* one with the canonical key and the alias, one with an empty canonical
\* value and the alias, one with a falsy alias.
AiSamples ==
    << JObj(<<Prop("Module", JStr("Battery")),
              Prop("Summarized Problem", JStr("Drains fast")),
              Prop("Severity", JStr("High"))>>),
       JObj(<<Prop("Module", JStr("Camera")),
              Prop("SummarizedProblem", JStr("Blurry")),
              Prop("Severity", JStr("Low")),
              Prop("Severity Reason", JStr("Cosmetic"))>>),
       JObj(<<Prop("Module", JStr("Audio"))>>),
       JObj(<<Prop("Module", JNum(0)),
              Prop("Summarized Problem", JStr("")),
              Prop("Severity", JBool(FALSE))>>),
       JNull,
       JNum(5),
       JObj(<<Prop("Module", JStr("Wifi")),
              Prop("Summarized Problem", JStr("Drops")),
              Prop("SummarizedProblem", JStr("Lost"))>>),
       JObj(<<Prop("Summarized Problem", JStr("")),
              Prop("SummarizedProblem", JStr("Weak signal"))>>),
       JObj(<<Prop("SummarizedProblem", JNum(0))>>) >>

\* The sequences of at most n indices 1..m.
IndexSeqs(m, n) == UNION { [1..k -> 1..m] : k \in 0..n }

Select(samples, ix) == [j \in 1..Len(ix) |-> samples[ix[j]]]

InitMerge ==
    /\ ServerIdle
    /\ fnIn \in { [fn |-> "merge", rows |-> Select(RowSamples, r),
                   ai |-> Select(AiSamples, a)] :
                    r \in { x \in IndexSeqs(Len(RowSamples), MaxRows) :
                                SameColumns(Select(RowSamples, x)) },
                    a \in IndexSeqs(Len(AiSamples), MaxAi) }
    /\ fnOut = NoFn
    /\ procs = NoProcs /\ ui = NoUi

\* The overlay of the AI array on the rows.
ApplyMerge ==
    /\ fnIn.fn = "merge" /\ fnOut = NoFn
    /\ fnOut' = [fn |-> "merge", merged |-> MergeOverlay(fnIn.rows, JArr(fnIn.ai))]
    /\ UNCHANGED <<serverVars, fnIn, procs, ui>>

SpecMerge == InitMerge /\ [][ApplyMerge]_vars

\* The AI-derived keys of the overlay, and the fields of an AI record a key
\* is read from.
AiKeys == {"Module", "Summarized Problem", "Severity"}
AiFieldsOf(key) ==
    IF key = "Summarized Problem" THEN <<"Summarized Problem", "SummarizedProblem">>
    ELSE <<key>>

KeysOf(row) == {row[j].k : j \in 1..Len(row)}
ValueIn(row, key) == GetProp(JObj(row), key)

\* The AI record of row i, undefined when the array is too short.
AiAt(i) == IF i <= Len(fnIn.ai) THEN fnIn.ai[i] ELSE Undefined

\* The record has none of the fields the key is read from.
Lacks(ai, key) ==
    \A n \in 1..Len(AiFieldsOf(key)) : GetProp(ai, AiFieldsOf(key)[n]).t = "undefined"

\* C3: every merged row holds every key of its original row, and an
\* AI-derived key is the empty string when the AI record is absent or lacks
\* the field.
C3_KeysRetainedEmptyDefaults ==
    fnOut.fn = "merge" =>
        \A i \in 1..Len(fnIn.rows) :
            /\ KeysOf(fnIn.rows[i]) \subseteq KeysOf(fnOut.merged[i])
            /\ \A key \in AiKeys :
                  Lacks(AiAt(i), key) => ValueIn(fnOut.merged[i], key) = JStr("")

\* A row beyond the AI array, and a row whose record lacks a field, have
\* been merged.
C3_Witness ==
    /\ fnOut.fn = "merge"
    /\ Len(fnIn.rows) = 2 /\ Len(fnIn.ai) = 1
    /\ fnIn.ai[1].t = "obj" /\ Lacks(fnIn.ai[1], "Severity")
    /\ ~Lacks(fnIn.ai[1], "Module")

Min(a, b) == IF a < b THEN a ELSE b

\* C4: one merged row per original row, in the original order, whatever
\* the number of AI records; rows beyond the AI array get empty AI fields,
\* records beyond the rows are ignored.
C4_OneRowPerOriginalRow ==
    fnOut.fn = "merge" =>
        /\ Len(fnOut.merged) = Len(fnIn.rows)
        /\ \A i \in 1..Len(fnIn.rows) :
              /\ \A key \in KeysOf(fnIn.rows[i]) \ AiKeys :
                    ValueIn(fnOut.merged[i], key) = ValueIn(fnIn.rows[i], key)
              /\ i > Len(fnIn.ai) =>
                    \A key \in AiKeys : ValueIn(fnOut.merged[i], key) = JStr("")
        /\ fnOut.merged =
              MergeOverlay(fnIn.rows,
                           JArr(SubSeq(fnIn.ai, 1, Min(Len(fnIn.rows), Len(fnIn.ai)))))

\* More rows than records have been merged.
C4_Witness ==
    /\ fnOut.fn = "merge"
    /\ Len(fnIn.rows) = 2 /\ Len(fnIn.ai) = 1
    /\ fnIn.rows[1] # fnIn.rows[2]
    /\ Len(fnOut.merged) = 2

\* The four AI-derived keys as the claim lists them, the last one the
\* severity rationale.
FourAiKeys == AiKeys \cup {"Severity Reason"}

\* The field of the record the key is read from: the first present one.
FieldOf(ai, key) ==
    IF GetProp(ai, AiFieldsOf(key)[1]).t # "undefined" \/ Len(AiFieldsOf(key)) = 1
    THEN GetProp(ai, AiFieldsOf(key)[1])
    ELSE GetProp(ai, AiFieldsOf(key)[2])

\* C5, as stated: with an AI record present, each of the four AI-derived
\* keys of the merged row has the value of that field of the record.
C5_FourKeysOverwritten ==
    fnOut.fn = "merge" =>
        \A i \in 1..Min(Len(fnIn.rows), Len(fnIn.ai)) :
            fnIn.ai[i].t = "obj" =>
                \A key \in FourAiKeys :
                    ~Lacks(fnIn.ai[i], key) =>
                        ValueIn(fnOut.merged[i], key) = FieldOf(fnIn.ai[i], key)

\* C5, amended: with an AI record present, each of the three keys Module,
\* Summarized Problem, Severity of the merged row has the value of that
\* field of the record when it is truthy (Summarized Problem read from
\* SummarizedProblem when it is not) and is the empty string otherwise,
\* whatever the original column of that name held; a Severity Reason of
\* the record is not merged.
C5_ThreeKeysOverwritten ==
    fnOut.fn = "merge" =>
        \A i \in 1..Min(Len(fnIn.rows), Len(fnIn.ai)) :
            fnIn.ai[i].t = "obj" =>
                /\ ValueIn(fnOut.merged[i], "Module") =
                      Or(GetProp(fnIn.ai[i], "Module"), JStr(""))
                /\ ValueIn(fnOut.merged[i], "Summarized Problem") =
                      Or(GetProp(fnIn.ai[i], "Summarized Problem"),
                         Or(GetProp(fnIn.ai[i], "SummarizedProblem"), JStr("")))
                /\ ValueIn(fnOut.merged[i], "Severity") =
                      Or(GetProp(fnIn.ai[i], "Severity"), JStr(""))
                /\ ValueIn(fnOut.merged[i], "Severity Reason") =
                      ValueIn(fnIn.rows[i], "Severity Reason")

\* A record with a Module has been merged into a row with a Module column.
C5_Witness ==
    /\ fnOut.fn = "merge"
    /\ Len(fnIn.rows) >= 1 /\ Len(fnIn.ai) >= 1
    /\ fnIn.rows[1] = ClashRow
    /\ fnIn.ai[1].t = "obj" /\ Truthy(GetProp(fnIn.ai[1], "Module"))
    /\ ValueIn(fnOut.merged[1], "Module") # ValueIn(fnIn.rows[1], "Module")

\* ------------------------------------------------------------------------
\* The output file name applied on its own
\* ------------------------------------------------------------------------

\* The longest model id made of IdChars.
MaxIdLen == 2

IdChars == {"a", ":", "1"}

RECURSIVE IdsUpTo(_)
IdsUpTo(n) ==
    IF n = 0 THEN {""}
    ELSE IdsUpTo(n - 1) \cup {p \o c : p \in IdsUpTo(n - 1), c \in IdChars}

\* The model ids of two requests: req.body.model || 'gemma3:4b' is never
\* the empty string.
NameModelIds ==
    (IdsUpTo(MaxIdLen) \ {""}) \cup {"gemma3:4b", "m", "m-19700101-000001"}

OriginalNames == {"f.xlsx", "g.xlsx", "19700101-000001-f.xlsx"}

\* The clock readings of two requests in one second.
SameSecond == {1000, 1999}

InitName ==
    /\ ServerIdle
    /\ fnIn \in { [fn |-> "name", m1 |-> a, f1 |-> b, m2 |-> c, f2 |-> d,
                   ms1 |-> 1000, ms2 |-> e] :
                    a \in NameModelIds, b \in OriginalNames,
                    c \in NameModelIds, d \in OriginalNames, e \in SameSecond }
    /\ fnOut = NoFn
    /\ procs = NoProcs /\ ui = NoUi

\* The output names of the two requests.
ApplyName ==
    /\ fnIn.fn = "name" /\ fnOut = NoFn
    /\ fnOut' = [fn |-> "name",
                 n1 |-> ProcessedFilenameV3(fnIn.m1, fnIn.ms1, fnIn.f1),
                 n2 |-> ProcessedFilenameV3(fnIn.m2, fnIn.ms2, fnIn.f2)]
    /\ UNCHANGED <<serverVars, fnIn, procs, ui>>

SpecName == InitName /\ [][ApplyName]_vars

\* C10, as stated: two requests of one second with distinct (model id,
\* original file name) pairs get distinct output names.
C10_DistinctPairsDistinctNames ==
    (fnOut.fn = "name" /\ <<fnIn.m1, fnIn.f1>> # <<fnIn.m2, fnIn.f2>>)
        => fnOut.n1 # fnOut.n2

\* C10, amended: two requests of one second get distinct output names when
\* their original file names are equal and their model ids differ after
\* the removal of colons, or when their model ids are equal after the
\* removal of colons and their original file names differ.
C10_DistinctNames ==
    (/\ fnOut.fn = "name"
     /\ \/ fnIn.f1 = fnIn.f2 /\ ReplaceColons(fnIn.m1) # ReplaceColons(fnIn.m2)
        \/ fnIn.f1 # fnIn.f2 /\ ReplaceColons(fnIn.m1) = ReplaceColons(fnIn.m2))
        => fnOut.n1 # fnOut.n2

\* Two requests with model ids that differ only by colons and with
\* different file names have been named.
C10_Witness ==
    /\ fnOut.fn = "name"
    /\ fnIn.m1 # fnIn.m2 /\ ReplaceColons(fnIn.m1) = ReplaceColons(fnIn.m2)
    /\ fnIn.f1 # fnIn.f2
    /\ fnIn.ms1 # fnIn.ms2
    /\ fnOut.n1 # fnOut.n2

\* ------------------------------------------------------------------------
\* Properties of the server
\* ------------------------------------------------------------------------

Performed(op) == \E i \in 1..Len(ops) : ops[i] = op

\* processExcel has received a text reply from callOllama and has run to
\* its response.
ExcelGotText ==
    /\ pc = "done" /\ call.excel
    /\ call.outcome.settled = "resolved"
    /\ call.outcome.value.t = "str"

\* "[" is absent, "]" is absent, or the last "]" precedes the first "[".
HasNoBracketPair(text) ==
    \/ IndexOf(text, "[") = -1
    \/ LastIndexOf(text, "]") = -1
    \/ LastIndexOf(text, "]") < IndexOf(text, "[")

\* The 500 response of the catch block for a reply without an array, the
\* parse never attempted.
AnsweredNoJsonArray ==
    /\ resp.status = 500 /\ resp.success = "false"
    /\ resp.error = NoJsonArrayMessage
    /\ ~Performed("parse")
    /\ ops[Len(ops)] = "respond"

\* C2: every reply without a bracket pair is answered with the
\* NoJsonArrayFound error in a 5xx body, JSON parsing never attempted.
\* v3 breaks it: its callOllama resolves a blank reply, and processExcel
\* answers that one with EmptyReplyMessage instead.
C2_AnyReplyWithoutPair ==
    (ExcelGotText /\ HasNoBracketPair(call.outcome.value.s))
        => AnsweredNoJsonArray

\* What the servers do: every reply that is not blank after trimming and
\* holds no bracket pair is answered with the NoJsonArrayFound error in a
\* 5xx body, JSON parsing never attempted.
C2_NoJsonArrayFound ==
    (/\ ExcelGotText
     /\ HasNoBracketPair(call.outcome.value.s)
     /\ Trim(call.outcome.value.s) # "")
        => AnsweredNoJsonArray

\* On v2, whose callOllama rejects a blank reply, every reply without a
\* bracket pair is answered with the NoJsonArrayFound error.
C2_OverlayServer ==
    variant = "v2" => C2_AnyReplyWithoutPair

\* v3 has answered a blank reply that reached processExcel.
C2_BlankReplyAnswered ==
    /\ variant = "v3" /\ ExcelGotText
    /\ Trim(call.outcome.value.s) = ""
    /\ resp.status = 500 /\ resp.error # NoJsonArrayMessage

\* A reply whose last "]" precedes its first "[" has been answered.
C2_Witness ==
    /\ ExcelGotText
    /\ IndexOf(call.outcome.value.s, "[") # -1
    /\ LastIndexOf(call.outcome.value.s, "]") # -1
    /\ LastIndexOf(call.outcome.value.s, "]") < IndexOf(call.outcome.value.s, "[")
    /\ resp.status = 500

\* The merged row of the example, its keys in order.
ExampleMerged ==
    <<Prop("Title", JStr("[X][Y] battery drains fast")),
      Prop("Problem", JStr("loses 20% per hour")),
      Prop("Module", JStr("Battery")),
      Prop("Summarized Problem",
           JStr("Battery drains rapidly, losing about 20% per hour.")),
      Prop("Severity", JStr("High"))>>

\* The overlay variant has handled the example: the one row {Title, Problem}
\* and the reply that wraps the one-element array in prose.
ExampleHandled ==
    /\ variant = "v2" /\ pc = "done" /\ call.excel
    /\ File.sheet = 1
    /\ call.outcome.settled = "resolved"
    /\ call.outcome.value = JStr(ExampleReply)

\* C6: on the example, extraction yields exactly one record and the file
\* written holds one row, the original Title and Problem followed by
\* exactly Module, Summarized Problem and Severity with the AI's values.
C6_Example ==
    ExampleHandled =>
        /\ Performed("merge")
        /\ Len(ExtractRecords(call.outcome.value).parsed.a) = 1
        /\ Performed("write") =>
              downloads[Len(downloads)].content = JArr(<<JObj(ExampleMerged)>>)

\* The example has been handled and answered with the download.
C6_Witness ==
    /\ ExampleHandled
    /\ resp.status = 200 /\ resp.success = "true"
    /\ Len(downloads) = 1

\* The error of a call that timed out.
IsTimeoutError(msg) == msg = "Failed to connect to Ollama: Request to Ollama timed out"

\* C7: a call to a backend that never responds is aborted and settles with
\* a timeout error, the request answered with a 5xx; no handler is left
\* waiting.
C7_SilentBackendTimesOut ==
    /\ (pc = "await" /\ backend = "silent")
          => ENABLED (SocketTimeout \/ DestroyedError)
    /\ (pc = "done" /\ backend = "silent" /\ call.state = "settled")
          => /\ call.outcome.settled = "rejected"
             /\ IsTimeoutError(call.outcome.error)
             /\ resp.status = 500

\* The error field of a body that parses to a value with a truthy one,
\* undefined otherwise.
BackendErrorOfParsed(p) ==
    IF p.ok /\ HasBackendError(p.v) THEN GetProp(p.v, "error") ELSE Undefined

BackendErrorOf(body) == BackendErrorOfParsed(JSONParse(body))

\* The rejection carries the text of the error field, where the field has
\* one.
CarriesErrorText(error, text) ==
    text.threw \/ error = "Ollama error: " \o text.s

\* C8: a body with an error field makes callOllama reject with that
\* message, and the request is not answered with a success.
C8_BackendErrorRejected ==
    (pc = "done" /\ call.state = "settled" /\ call.body # ""
        /\ BackendErrorOf(call.body).t # "undefined")
        => /\ call.outcome.settled = "rejected"
           /\ CarriesErrorText(call.outcome.error,
                               JsToString(BackendErrorOf(call.body)))
           /\ resp.status = 500
           /\ resp.success # "true"

\* The reply the body stands for: the first of response, output, result,
\* else the raw body; undefined for a body that does not parse to a value
\* with properties or that carries an error.
ExpectedReplyOfParsed(p, body) ==
    IF p.ok /\ p.v.t # "null" /\ ~HasBackendError(p.v)
    THEN ReplyOf(p.v, body)
    ELSE Undefined

ExpectedReplyOf(body) == ExpectedReplyOfParsed(JSONParse(body), body)

BodyParses(body) == ExpectedReplyOfParsed(JSONParse(body), "x").t # "undefined"

\* C9: the reply is the first present of response, output, result, else
\* the raw body; an empty, blank or missing one is rejected as an empty
\* reply, and no success carries an empty or undefined result.
C9_ReplyOrEmptyReply ==
    /\ (pc = "done" /\ call.state = "settled" /\ call.body # ""
           /\ BodyParses(call.body))
          => IF IsEmptyReply(ExpectedReplyOf(call.body))
             THEN /\ call.outcome = Reject(EmptyReplyMessage)
                  /\ resp.status = 500
             ELSE call.outcome = Resolve(ExpectedReplyOf(call.body))
    /\ (pc = "done" /\ ~call.excel /\ resp.success = "true")
          => ~IsEmptyReply(resp.result)

\* ------------------------------------------------------------------------
\* Several file requests at a time
\* ------------------------------------------------------------------------

\* The number of file requests in flight together.
MaxRequests == 2

\* The readings of the clock: two in one second, one in the next second.
Clocks == <<1000, 1001, 2000>>

ConcurrentNames == {"report.xlsx", "data.xlsx"}

\* The model ids of the requests: only v3 reads req.body.model.
ConcurrentModels(v) ==
    IF v = "v3" THEN {"gemma3:4b", "gemma34b"} ELSE {ModelOf(v, Rq("", "", 0, "", "", ""))}

\* A file request received: path is req.file.path, out the path of its
\* output, both "" until written; status is the status of its response, 0
\* until answered.
NewProc(name, model) ==
    [pc |-> "new", originalname |-> name, model |-> model, path |-> "",
     out |-> "", readFailed |-> FALSE, unlinkFailed |-> FALSE, status |-> 0]

InitConcurrent ==
    /\ variant \in {"v1", "v2", "v3"}
    /\ procs \in [1..MaxRequests ->
                    {NewProc(n, m) : n \in ConcurrentNames,
                                     m \in ConcurrentModels(variant)}]
    /\ now = Clocks[1]
    /\ uploads = {} /\ downloads = <<>>
    /\ req = Rq("", "", 0, "", "", "") /\ backend = "none" /\ pc = "off"
    /\ filePath = "" /\ call = NoCall /\ resp = NoResp /\ ops = <<>>
    /\ fnIn = NoFn /\ fnOut = NoFn /\ ui = NoUi

\* Time passes between two steps of the requests.
ClockTick ==
    /\ \E k \in 1..(Len(Clocks) - 1) : now = Clocks[k] /\ now' = Clocks[k + 1]
    /\ UNCHANGED <<variant, req, backend, pc, filePath, call, resp, uploads,
                   downloads, ops, fnIn, fnOut, procs, ui>>

\* multer stores the file part of request i.
ConcurrentUpload(i) ==
    /\ procs[i].pc = "new"
    /\ procs' = [procs EXCEPT ![i].pc = "uploaded",
                              ![i].path = UploadPath(now, procs[i].originalname)]
    /\ uploads' = uploads \cup {UploadPath(now, procs[i].originalname)}
    /\ UNCHANGED <<variant, req, backend, pc, filePath, call, resp, downloads,
                   now, ops, fnIn, fnOut, ui>>

\* The handler of request i up to its await, one synchronous block.  It
\* reads its upload, xlsx.readFile in processExcel and fs.readFileSync in
\* v1, which throws when another request has removed the file: the catch
\* answers 500 and nothing is written.  v1 unlinks the upload it has just
\* read.  Then the handler waits for callOllama.
ConcurrentRead(i) ==
    /\ procs[i].pc = "uploaded"
    /\ IF procs[i].path \notin uploads
       THEN /\ procs' = [procs EXCEPT ![i].pc = "done",
                                      ![i].readFailed = TRUE,
                                      ![i].status = 500]
            /\ UNCHANGED uploads
       ELSE /\ procs' = [procs EXCEPT ![i].pc = "awaiting"]
            /\ uploads' = IF variant = "v1" THEN uploads \ {procs[i].path}
                                            ELSE uploads
    /\ UNCHANGED <<variant, req, backend, pc, filePath, call, resp, downloads,
                   now, ops, fnIn, fnOut, ui>>

\* The rest of processExcel of request i after its await, one synchronous
\* block, the call resolved with an array: it writes its output and unlinks
\* its upload, which throws when the file is gone, and the catch answers
\* 500.  The content stands for the rows of request i.
ConcurrentWrite(i) ==
    /\ variant # "v1"
    /\ procs[i].pc = "awaiting"
    /\ procs' = [procs EXCEPT
                    ![i].pc = "done",
                    ![i].out = "downloads/" \o
                        ProcessedFilename(variant, procs[i].model, now,
                                          procs[i].originalname),
                    ![i].unlinkFailed = procs[i].path \notin uploads,
                    ![i].status = IF procs[i].path \notin uploads
                                  THEN 500 ELSE 200]
    /\ downloads' = WriteFile(downloads, procs'[i].out, JNum(i))
    /\ uploads' = uploads \ {procs[i].path}
    /\ UNCHANGED <<variant, req, backend, pc, filePath, call, resp,
                   now, ops, fnIn, fnOut, ui>>

\* The rest of the handler of v1 for request i after its await, the call
\* resolved: it answers with the result and touches no file.
ConcurrentAnswer(i) ==
    /\ variant = "v1"
    /\ procs[i].pc = "awaiting"
    /\ procs' = [procs EXCEPT ![i].pc = "done", ![i].status = 200]
    /\ UNCHANGED <<variant, req, backend, pc, filePath, call, resp, uploads,
                   downloads, now, ops, fnIn, fnOut, ui>>

NextConcurrent ==
    \/ ClockTick
    \/ \E i \in 1..MaxRequests : ConcurrentUpload(i)
    \/ \E i \in 1..MaxRequests : ConcurrentRead(i)
    \/ \E i \in 1..MaxRequests : ConcurrentWrite(i)
    \/ \E i \in 1..MaxRequests : ConcurrentAnswer(i)

SpecConcurrent == InitConcurrent /\ [][NextConcurrent]_vars

\* C11: no two requests ever write to the same path of uploads/ or of
\* downloads/.
C11_NoSharedPath ==
    \A i, j \in DOMAIN procs :
        i # j =>
            /\ (procs[i].path # "" /\ procs[j].path # "")
                  => procs[i].path # procs[j].path
            /\ (procs[i].out # "" /\ procs[j].out # "")
                  => procs[i].out # procs[j].out

\* ------------------------------------------------------------------------
\* Properties of the server: errors and the file system
\* ------------------------------------------------------------------------

\* The success response of processExcel, with the download URL.
AnsweredWithDownload ==
    /\ resp.status = 200 /\ resp.success = "true"
    /\ resp.downloadUrl # "" /\ resp.filename # ""

\* C12: once the output has been written the request is answered with the
\* success response and the download URL, whether or not the deletion of
\* the upload succeeds.
C12_DeleteFailureSwallowed ==
    (pc = "done" /\ call.excel /\ Performed("write")) => AnsweredWithDownload

\* C13: every failure of a core operation is answered with an error body
\* and a 4xx or 5xx status, success true is sent only when the call, the
\* extraction and the write succeeded, and no error response follows the
\* write of the output.
C13_ErrorsCaughtNoPartialSuccess ==
    (pc = "done" /\ ~resp.html) =>
        /\ resp.status \in {200, 400, 500}
        /\ resp.status # 200 => (resp.error # "" /\ resp.success # "true")
        /\ resp.success = "true" =>
              /\ call.outcome.settled = "resolved"
              /\ call.excel =>
                    (ExtractRecords(call.outcome.value).ok /\ Performed("write"))
        /\ resp.status # 200 => ~Performed("write")

\* The request brings no text to the text endpoint, neither a file nor a
\* text to the file endpoint.
InputAbsent(r) ==
    IF r.route = "/api/process" THEN r.file = 0 /\ r.text = "" ELSE r.text = ""

\* C14: a request without input is answered with a 4xx and an error body,
\* and callOllama is never called for it.
C14_NoInputRejected ==
    (pc \in {"await", "done"} /\ InputAbsent(req)) =>
        /\ pc = "done"
        /\ resp.status = 400 /\ resp.error # ""
        /\ call.state = "none"
        /\ ~Performed("callOllama")

\* A file endpoint has answered a request without a file.
C14_Witness ==
    /\ pc = "done" /\ InputAbsent(req)
    /\ req.route = "/api/process"
    /\ resp.status = 400

\* The position of the first op in ops, 0 if the handler has not performed it.
OpIndex(op) == IF Performed(op) THEN CHOOSE i \in 1..Len(ops) : ops[i] = op ELSE 0

\* C15: a response that names a download URL names a file that is in
\* downloads/, written before the response was sent.
C15_WrittenBeforeNamed ==
    resp.downloadUrl # "" =>
        /\ resp.downloadUrl = "/downloads/" \o resp.filename
        /\ \E j \in 1..Len(downloads) :
              downloads[j].path = "downloads/" \o resp.filename
        /\ Performed("write")
        /\ OpIndex("write") < OpIndex("respond")

\* processExcel has answered with a download URL.
C15_Witness ==
    /\ pc = "done" /\ call.excel
    /\ resp.downloadUrl # ""
    /\ Len(downloads) = 1

\* processExcel of v3 has written its output file.
ReplaceWritten == variant = "v3" /\ pc = "done" /\ call.excel /\ Performed("write")

\* C16: under the replace policy of v3 the content written to the output
\* file is the parsed AI records, as many and in the order the reply has
\* them, whatever the rows of the uploaded sheet.
C16_ReplaceWritesAiRecords ==
    ReplaceWritten =>
        /\ call.outcome.settled = "resolved"
        /\ downloads[Len(downloads)].content =
              ExtractRecords(call.outcome.value).parsed

\* A one-row sheet has been answered with three records and all three are
\* in the output file of a successful response.
C16_Witness ==
    /\ ReplaceWritten
    /\ resp.status = 200
    /\ Len(Rows) = 1
    /\ Len(downloads[Len(downloads)].content.a) = 3

\* C17: the prompt of every request the handlers send to the backend is not
\* the empty string.
C17_PromptNonEmpty ==
    call.state # "none" => call.prompt # ""

\* ------------------------------------------------------------------------
\* Properties of the overlay: aliases
\* ------------------------------------------------------------------------

\* The key has an alias and the record carries it.
CarriesAlias(ai, key) ==
    /\ Len(AiFieldsOf(key)) = 2
    /\ GetProp(ai, AiFieldsOf(key)[2]).t # "undefined"

CarriesCanonical(ai, key) == GetProp(ai, key).t # "undefined"

\* C18, as stated: a record that lacks the canonical key and carries its
\* alias gives the merged field the alias's value, and a record that
\* carries both gives it the canonical key's value.
C18_AliasThenCanonicalWins ==
    fnOut.fn = "merge" =>
        \A i \in 1..Min(Len(fnIn.rows), Len(fnIn.ai)) :
            \A key \in AiKeys :
                CarriesAlias(fnIn.ai[i], key) =>
                    ValueIn(fnOut.merged[i], key) =
                        IF CarriesCanonical(fnIn.ai[i], key)
                        THEN GetProp(fnIn.ai[i], key)
                        ELSE GetProp(fnIn.ai[i], AiFieldsOf(key)[2])

\* The value of the first of the fields that is truthy in the record, the
\* empty string if none is.
FirstTruthy(ai, fields) ==
    IF \E n \in 1..Len(fields) : Truthy(GetProp(ai, fields[n]))
    THEN GetProp(ai, fields[CHOOSE n \in 1..Len(fields) :
                               /\ Truthy(GetProp(ai, fields[n]))
                               /\ \A m \in 1..(n - 1) :
                                     ~Truthy(GetProp(ai, fields[m]))])
    ELSE JStr("")

\* C18, amended: the merged field of each AI-derived column is the value of
\* the canonical key when that value is truthy, otherwise the value of the
\* column's alias when the column has one and its value is truthy, otherwise
\* the empty string; Summarized Problem alone has an alias,
\* SummarizedProblem.
C18_AliasWhenCanonicalFalsy ==
    fnOut.fn = "merge" =>
        /\ \A key \in AiKeys : Len(AiFieldsOf(key)) = 2 <=> key = "Summarized Problem"
        /\ \A i \in 1..Len(fnIn.rows) :
              \A key \in AiKeys :
                  ValueIn(fnOut.merged[i], key) =
                      FirstTruthy(Or(AiAt(i), JObj(<<>>)), AiFieldsOf(key))

\* A record with the alias alone and a record with both keys have been
\* merged: the first field is the alias's value, the second the canonical
\* key's.
C18_Witness ==
    /\ fnOut.fn = "merge"
    /\ Len(fnIn.rows) = 2 /\ Len(fnIn.ai) = 2
    /\ CarriesAlias(fnIn.ai[1], "Summarized Problem")
    /\ ~CarriesCanonical(fnIn.ai[1], "Summarized Problem")
    /\ ValueIn(fnOut.merged[1], "Summarized Problem") =
          GetProp(fnIn.ai[1], "SummarizedProblem")
    /\ CarriesAlias(fnIn.ai[2], "Summarized Problem")
    /\ CarriesCanonical(fnIn.ai[2], "Summarized Problem")
    /\ ValueIn(fnOut.merged[2], "Summarized Problem") =
          GetProp(fnIn.ai[2], "Summarized Problem")

\* ------------------------------------------------------------------------
\* Properties of the server: the files a failed request leaves
\* ------------------------------------------------------------------------

\* processExcel has run to its response after callOllama rejected, or after
\* the reply gave no records (no bracket pair, or a slice that is no JSON).
ExcelFailedBeforeMerge ==
    /\ pc = "done" /\ call.excel
    /\ \/ call.outcome.settled = "rejected"
       \/ ~ExtractRecords(call.outcome.value).ok

\* C19: when inference, bracket extraction or JSON parsing fails in
\* processExcel, downloads/ holds no new file and the upload is still in
\* uploads/; and the upload of a spreadsheet request is gone only after the
\* output file has been written.
C19_FailureLeavesFiles ==
    /\ ExcelFailedBeforeMerge =>
          /\ downloads = <<>>
          /\ filePath \in uploads
          /\ ~Performed("write") /\ ~Performed("unlink")
          /\ resp.status = 500
    /\ (call.excel /\ filePath \notin uploads) =>
          /\ Performed("write")
          /\ Performed("unlink") => OpIndex("write") < OpIndex("unlink")
          /\ Len(downloads) = 1

\* A reply whose bracket slice is no JSON has been answered, the parse
\* attempted.
C19_Witness ==
    /\ ExcelFailedBeforeMerge
    /\ call.outcome.settled = "resolved"
    /\ Performed("parse")
    /\ filePath \in uploads /\ downloads = <<>>

\* ------------------------------------------------------------------------
\* The web page: src/public/script.js
\* ------------------------------------------------------------------------

\* The handleProcess runs that reach showLoading, over the life of a page.
MaxRuns == 2

\* validTypes of handleFile
ValidTypes == {".txt", ".md", ".json", ".csv", ".log"}

\* 10 * 1024 * 1024
MaxFileSize == 10485760

\* The files a user picks: the name and the size in bytes.
UiFiles ==
    { [name |-> "notes.txt", size |-> 10],
      [name |-> "report.xlsx", size |-> 2048],
      [name |-> "big.log", size |-> 10485761] }

UiTexts == {"", " ", "hello"}
UiProcessingTypes == {"summarize", "custom"}
UiPrompts == {"", "Clean this"}

\* '.' + file.name.split('.').pop().toLowerCase()
FileExt(name) ==
    "." \o ToLowerCase(Substring(name, LastIndexOf(name, ".") + 1, Len(name)))

\* The alert of handleProcess's catch block.
ErrorAlert(message) ==
    "Error: " \o message
        \o "\n\nMake sure Ollama is running with the Qwen 3:8b model."

\* The page after DOMContentLoaded: the upload tab, no file, no text, the
\* process button enabled, the overlay hidden, no run of handleProcess.
PageLoaded(processingType) ==
    [page |-> "open", tab |-> "upload", file |-> "", text |-> "",
     processingType |-> processingType, customPrompt |-> "",
     disabled |-> FALSE, overlay |-> "none", alert |-> "",
     currentResult |-> "", resultsShown |-> FALSE, runs |-> <<>>]

InitUi ==
    /\ ServerIdle
    /\ fnIn = NoFn /\ fnOut = NoFn
    /\ procs = NoProcs
    /\ ui \in {PageLoaded(t) : t \in UiProcessingTypes}

\* clearFile()
ClearFile(u) == [u EXCEPT !.file = ""]

\* showLoading() and hideLoading()
ShowLoading(u) == [u EXCEPT !.overlay = "flex", !.disabled = TRUE]
HideLoading(u) == [u EXCEPT !.overlay = "none", !.disabled = FALSE]

\* A click on a tab button: switchTab(tab).
SwitchTab ==
    /\ ui.overlay = "none"
    /\ \E tab \in {"upload", "paste"} :
          ui' = IF tab = "upload"
                THEN [ui EXCEPT !.tab = tab, !.text = ""]
                ELSE [ClearFile(ui) EXCEPT !.tab = tab]
    /\ UNCHANGED <<serverVars, fnIn, fnOut, procs>>

\* A file is dropped or selected: handleFile(file).
HandleFile ==
    /\ ui.overlay = "none" /\ ui.tab = "upload"
    /\ \E f \in UiFiles :
          ui' = IF FileExt(f.name) \notin ValidTypes
                THEN [ui EXCEPT !.alert =
                        "Please upload a valid file type: .txt, .md, .json, .csv, or .log"]
                ELSE IF f.size > MaxFileSize
                THEN [ui EXCEPT !.alert = "File size must be less than 10MB"]
                ELSE [ui EXCEPT !.file = f.name]
    /\ UNCHANGED <<serverVars, fnIn, fnOut, procs>>

\* The user edits the text area, the custom prompt or the processing type.
EditInputs ==
    /\ ui.overlay = "none"
    /\ \/ ui.tab = "paste" /\ \E t \in UiTexts : ui' = [ui EXCEPT !.text = t]
       \/ \E c \in UiPrompts : ui' = [ui EXCEPT !.customPrompt = c]
       \/ \E t \in UiProcessingTypes : ui' = [ui EXCEPT !.processingType = t]
    /\ UNCHANGED <<serverVars, fnIn, fnOut, procs>>

\* A run of handleProcess past its checks: showLoading() and the fetch.
StartRun(u, isFile) ==
    [ShowLoading(u) EXCEPT !.runs =
        Append(u.runs,
               [state |-> "fetch",
                url |-> IF isFile THEN "/api/process" ELSE "/api/process-text",
                isFile |-> isFile,
                processingType |-> u.processingType])]

\* handleProcess up to its first await: the checks, each with its alert and
\* return, then showLoading() and the fetch.
HandleProcess(u) ==
    IF u.tab = "upload" /\ u.file = ""
    THEN [u EXCEPT !.alert = "Please upload a file first"]
    ELSE IF u.tab # "upload" /\ Trim(u.text) = ""
    THEN [u EXCEPT !.alert = "Please enter some text first"]
    ELSE IF u.processingType = "custom" /\ Trim(u.customPrompt) = ""
    THEN [u EXCEPT !.alert = "Please enter a custom prompt"]
    ELSE StartRun(u, u.tab = "upload")

\* A click on the process button; a disabled button, and a button under the
\* overlay, gets no click.
ClickProcess ==
    /\ ~ui.disabled /\ ui.overlay = "none"
    /\ Len(ui.runs) < MaxRuns
    /\ ui' = HandleProcess(ui)
    /\ UNCHANGED <<serverVars, fnIn, fnOut, procs>>

\* keydown with Ctrl/Cmd + Enter: handleProcess().
ShortcutProcess ==
    /\ Len(ui.runs) < MaxRuns
    /\ ui' = HandleProcess(ui)
    /\ UNCHANGED <<serverVars, fnIn, fnOut, procs>>

\* keydown with Ctrl/Cmd + K: the inputs and the results are cleared.
ShortcutClear ==
    /\ ui' = [ClearFile(ui) EXCEPT !.text = "", !.resultsShown = FALSE]
    /\ UNCHANGED <<serverVars, fnIn, fnOut, procs>>

\* The catch block and the finally block of run i.
RunThrows(u, i, message) ==
    [HideLoading(u) EXCEPT !.alert = ErrorAlert(message),
                           !.runs[i].state = "done"]

\* The try block of run i after response.json() gave result, and the
\* finally block.
RunResult(u, i, result) ==
    IF result.success
    THEN [HideLoading(u) EXCEPT !.currentResult = result.result,
                                !.resultsShown = TRUE,
                                !.runs[i].state = "done"]
    ELSE RunThrows(u, i, IF result.error = "" THEN "Processing failed"
                         ELSE result.error)

\* The fetch of run i settles: it rejects, or it resolves with a response
\* that is ok or not.
FetchSettles(i) ==
    /\ ui.runs[i].state = "fetch"
    /\ \E settled \in {"rejected", "not ok", "ok"} :
          ui' = CASE settled = "rejected" -> RunThrows(ui, i, "Failed to fetch")
                  [] settled = "not ok" ->
                        RunThrows(ui, i, IF ui.runs[i].isFile
                                         THEN "Failed to process file"
                                         ELSE "Failed to process text")
                  [] OTHER -> [ui EXCEPT !.runs[i].state = "json"]
    /\ UNCHANGED <<serverVars, fnIn, fnOut, procs>>

\* The bodies response.json() resolves with.
UiResults ==
    { [success |-> TRUE, result |-> "a summary", error |-> ""],
      [success |-> FALSE, result |-> "", error |-> "No text provided"],
      [success |-> FALSE, result |-> "", error |-> ""] }

\* response.json() of run i settles: it rejects on a body that is no JSON,
\* or it resolves with the body.
JsonSettles(i) ==
    /\ ui.runs[i].state = "json"
    /\ \/ ui' = RunThrows(ui, i, "Unexpected token < in JSON at position 0")
       \/ \E result \in UiResults : ui' = RunResult(ui, i, result)
    /\ UNCHANGED <<serverVars, fnIn, fnOut, procs>>

\* A click on the remove-file button of a chosen file: clearFile().
RemoveFile ==
    /\ ui.file # ""
    /\ ui' = ClearFile(ui)
    /\ UNCHANGED <<serverVars, fnIn, fnOut, procs>>

\* A click on the copy button: copyToClipboard().  When writeText resolves
\* only the label of the button changes, which the page's state here does
\* not hold; when it rejects the catch block alerts.
CopyToClipboard ==
    /\ \E copied \in BOOLEAN :
          ui' = IF copied THEN ui
                ELSE [ui EXCEPT !.alert = "Failed to copy to clipboard"]
    /\ UNCHANGED <<serverVars, fnIn, fnOut, procs>>

NextUi ==
    \/ SwitchTab
    \/ HandleFile
    \/ RemoveFile
    \/ CopyToClipboard
    \/ EditInputs
    \/ ClickProcess
    \/ ShortcutProcess
    \/ ShortcutClear
    \/ \E i \in 1..Len(ui.runs) : FetchSettles(i)
    \/ \E i \in 1..Len(ui.runs) : JsonSettles(i)

SpecUi == InitUi /\ [][NextUi]_vars

\* The runs of handleProcess between their showLoading and their
\* hideLoading.
InFlight == {i \in 1..Len(ui.runs) : ui.runs[i].state # "done"}

\* hideLoading has run after every finished run: with no run in flight the
\* overlay is hidden and the button enabled.
HiddenAfterEveryRun ==
    (ui.page = "open" /\ InFlight = {}) => (ui.overlay = "none" /\ ~ui.disabled)

\* C20: at most one run of handleProcess is between its showLoading and
\* its hideLoading at a time, whether started by the button or by the
\* shortcut, and hideLoading has run after every run that called
\* showLoading.
C20_OneRequestInFlight ==
    /\ ui.page = "open" => Cardinality(InFlight) <= 1
    /\ HiddenAfterEveryRun

\* ------------------------------------------------------------------------
\* The status indicator: checkOllamaConnection and GET /api/health
\* ------------------------------------------------------------------------

\* The runs of checkOllamaConnection over the life of a page.
MaxChecks == 3

\* req.setTimeout(5000, ...) of the health probe, and the delay of
\* setTimeout(checkOllamaConnection, 30000), in ms.
ProbeTimeoutMs == 5000
RecheckMs == 30000

\* The status codes the backend answers GET / with.
ProbeStatusCodes == {200, 404}

NoHealth == [http |-> 0, status |-> "", ollama |-> "", message |-> ""]

\* res.json({ status: 'ok', ollama: ... }) and the 503 of v1's catch block
HealthOk(ollama) ==
    [http |-> 200, status |-> "ok", ollama |-> ollama, message |-> ""]
HealthError(message) ==
    [http |-> 503, status |-> "error", ollama |-> "disconnected",
     message |-> message]

\* The page after DOMContentLoaded, checkOllamaConnection about to run; the
\* indicator has the class and the text of the markup.  handler is the
\* position of the server's handler of the last fetch, res its answer and
\* probe the outcome of its probe of the backend.
StatusPage ==
    [page |-> "status", pc |-> "start", className |-> "status", text |-> "",
     handler |-> "idle", res |-> NoHealth, probe |-> "none", checks |-> 0]

InitHealth ==
    /\ variant \in {"v1", "v2", "v3"}
    /\ backend \in {"responds", "refuses", "silent"}
    /\ req = Rq("", "", 0, "", "", "")
    /\ pc = "off" /\ filePath = ""
    /\ call = NoCall /\ resp = NoResp
    /\ uploads = {} /\ downloads = <<>> /\ now = 0 /\ ops = <<>>
    /\ fnIn = NoFn /\ fnOut = NoFn
    /\ procs = NoProcs
    /\ ui = StatusPage

\* updateStatus(status, text)
UpdateStatus(u, status, text) ==
    [u EXCEPT !.className = "status " \o status, !.text = text]

\* checkOllamaConnection starts: fetch('/api/health') sends the request and
\* the page awaits it.  The handler of an earlier fetch that failed is
\* followed no further: its answer reaches no page.
HealthFetch ==
    /\ ui.pc = "start" /\ ui.checks < MaxChecks
    /\ ui' = [ui EXCEPT !.pc = "fetch", !.checks = @ + 1, !.handler = "sent",
                        !.probe = "none", !.res = NoHealth]
    /\ UNCHANGED <<serverVars, fnIn, fnOut, procs>>

\* The handler of GET /api/health runs up to its await: it sends its probe
\* (v1 a generation request, v2 and v3 GET /) and returns to the event
\* loop, nothing answered.
HealthHandler ==
    /\ ui.handler = "sent"
    /\ ui' = [ui EXCEPT !.handler = "probing"]
    /\ UNCHANGED <<serverVars, fnIn, fnOut, procs>>

\* The health handler of v1 once callOllama('Hello', ...) has settled with st.
HealthV1(st) ==
    IF st.settled = "resolved" THEN HealthOk("connected")
    ELSE HealthError(st.error)

\* The health handler of v2 and v3 once its probe has resolved with reached.
HealthProbe(reached) ==
    IF reached THEN HealthOk("connected") ELSE HealthOk("disconnected")

\* The probe has settled and the handler answers; the page still awaits
\* its fetch.
HealthAnswer(res, probe, t) ==
    /\ ui' = [ui EXCEPT !.handler = "answered", !.res = res, !.probe = probe]
    /\ now' = t
    /\ UNCHANGED <<variant, req, pc, filePath, call, resp, uploads,
                   downloads, ops, fnIn, fnOut, procs>>

\* The backend answers the probe: v1 has awaited a generation, v2 and v3
\* compare the status code of GET / with 200.
HealthBackendResponds ==
    /\ ui.handler = "probing" /\ backend = "responds"
    /\ IF variant = "v1"
       THEN \E body \in Bodies :
               HealthAnswer(HealthV1(OnEnd("v1", body)), "reached", now)
       ELSE \E code \in ProbeStatusCodes :
               HealthAnswer(HealthProbe(code = 200), "reached", now)
    /\ UNCHANGED backend

\* The backend refuses the connection of the probe.
HealthBackendRefuses ==
    /\ ui.handler = "probing" /\ backend = "refuses"
    /\ IF variant = "v1"
       THEN HealthAnswer(HealthV1(OnError("connect ECONNREFUSED 127.0.0.1:11434")),
                         "unreachable", now)
       ELSE HealthAnswer(HealthProbe(FALSE), "unreachable", now)
    /\ UNCHANGED backend

\* The backend stops after it accepted the probe: the request emits 'error'
\* with a socket hang up.
HealthBackendStops ==
    /\ ui.handler = "probing" /\ backend = "responds"
    /\ backend' = "refuses"
    /\ IF variant = "v1"
       THEN HealthAnswer(HealthV1(OnError("socket hang up")), "dropped", now)
       ELSE HealthAnswer(HealthProbe(FALSE), "dropped", now)

\* The backend stays silent: the probe of v2 and v3 times out; v1's
\* callOllama sets no timeout and the handler never answers.
HealthProbeTimeout ==
    /\ ui.handler = "probing" /\ backend = "silent"
    /\ HasTimeout(variant)
    /\ HealthAnswer(HealthProbe(FALSE), "timeout", now + ProbeTimeoutMs)
    /\ UNCHANGED backend

\* The answer of the handler reaches the page: the fetch resolves and the
\* page runs on to its await of response.json().
HealthFetchResolves ==
    /\ ui.pc = "fetch" /\ ui.handler = "answered"
    /\ ui' = [ui EXCEPT !.pc = "json"]
    /\ UNCHANGED <<serverVars, fnIn, fnOut, procs>>

\* The catch block and the timer of checkOllamaConnection.
HealthCaught(u) ==
    [UpdateStatus(u, "error", "Ollama Not Running") EXCEPT !.pc = "timer"]

\* The fetch rejects: the connection between the page and the server is
\* lost, before the handler has answered or before its answer arrives.
HealthFetchFails ==
    /\ ui.pc = "fetch"
    /\ ui' = HealthCaught(ui)
    /\ UNCHANGED <<serverVars, fnIn, fnOut, procs>>

\* response.json() resolves with the body and the indicator is updated.
HealthShown ==
    /\ ui.pc = "json"
    /\ ui' = [(IF ui.res.status = "ok"
               THEN UpdateStatus(ui, "connected", "Ollama Connected")
               ELSE UpdateStatus(ui, "error", "Ollama Disconnected"))
              EXCEPT !.pc = "timer"]
    /\ UNCHANGED <<serverVars, fnIn, fnOut, procs>>

\* The timer of setTimeout(checkOllamaConnection, 30000) fires.
HealthTimer ==
    /\ ui.pc = "timer"
    /\ ui' = [ui EXCEPT !.pc = "start"]
    /\ now' = now + RecheckMs
    /\ UNCHANGED <<variant, req, backend, pc, filePath, call, resp, uploads,
                   downloads, ops, fnIn, fnOut, procs>>

\* The backend is started, stopped or hangs between two checks.
BackendChanges ==
    /\ ui.pc = "timer"
    /\ \E b \in {"responds", "refuses", "silent"} : b # backend /\ backend' = b
    /\ UNCHANGED <<variant, req, pc, filePath, call, resp, uploads, downloads,
                   now, ops, fnIn, fnOut, procs, ui>>

NextHealth ==
    \/ HealthFetch
    \/ HealthHandler
    \/ HealthBackendResponds
    \/ HealthBackendRefuses
    \/ HealthBackendStops
    \/ HealthProbeTimeout
    \/ HealthFetchResolves
    \/ HealthFetchFails
    \/ HealthShown
    \/ HealthTimer
    \/ BackendChanges

SpecHealth == InitHealth /\ [][NextHealth]_vars

\* A run of checkOllamaConnection has updated the indicator.
HealthChecked == ui.page = "status" /\ ui.pc = "timer"

\* C21: after a run of checkOllamaConnection the indicator shows 'Ollama
\* Connected' only if the server's probe reached the backend, and it is in
\* the error state whenever the probe found the backend unreachable or
\* timed out.
C21_ConnectedOnlyWhenReached ==
    HealthChecked =>
        /\ ui.text = "Ollama Connected" => ui.probe = "reached"
        /\ ui.probe \in {"unreachable", "timeout"} =>
              ui.className = "status error"

=============================================================================
